---------------------------- MODULE Spec2Model ----------------------------
(***************************************************************************)
(* Reaction ranking for messaging channels: the tiered cache lookup of the *)
(* web UI (streamlit_app.py), the bot's lookup (telegram_bot.py) and the   *)
(* shared analysis core (analyzer_core.py).                                *)
(*                                                                         *)
(* One channel is modelled.  Its two cache files and its image directory   *)
(* are the shared on-disk state; the web UI session and the bot handler    *)
(* are two sequential processes that interleave on it.                     *)
(***************************************************************************)
EXTENDS Integers, Sequences, FiniteSets, TLC

VARIABLES
    remote,          \* the channel's messages as the remote source serves them
    rawFile,         \* cache/raw_<channel_id>.json
    resultFile,      \* cache/channel_<channel_id>.json
    images,          \* ids n with a file cache/images/<channel_id>/<n>.* on disk
    target_emojis,   \* st.session_state.target_emojis
    results,         \* st.session_state.results
    ui,              \* the running "开始分析" request of the web UI
    bot,             \* the bot: pending_sessions and the running handler
    rf,              \* a bare call sequence of refilter_reactions
    call,            \* a bare call of one of the pure functions: arguments and result
    loop             \* the bot's event loop: pending_sessions and the handlers under way

vars == <<remote, rawFile, resultFile, images, target_emojis, results, ui, bot, rf, call, loop>>

-----------------------------------------------------------------------------
(* Bounds *)

\* largest count of one emoji in a reaction_details dict of the records
\* handed to refilter_reactions on its own; their stored `reactions` is 0 or
\* MaxCount
MaxCount == 1
\* longest record list handed to refilter_reactions on its own
MaxLen == 2
\* longest target emoji list handed to refilter_reactions on its own
MaxTargets == 2
\* refilter_reactions calls in one bare call sequence
MaxCalls == 2
\* largest `reactions` and `forwards` of the records handed to calc_hotness on
\* its own, and the latest date, in steps of DateStep days after the epoch
MaxReactions == 3
MaxForwards == 4
MaxDateSteps == 1

-----------------------------------------------------------------------------
(* Emoji lists *)

\* config_loader.ALL_EMOJIS, cut down to two symbols
ALL_EMOJIS == <<"thumb", "fire">>

\* config_loader.DEFAULT_TARGET_EMOJIS, a non-empty sublist of ALL_EMOJIS
DEFAULT_TARGET_EMOJIS == <<"thumb">>

\* cfg['target_emojis'] of the bot: load_config's default
cfg_target_emojis == DEFAULT_TARGET_EMOJIS

Range(s) == {s[i] : i \in 1..Len(s)}

\* what st.multiselect can return: the options, each at most once, in the
\* order they were picked
Selections ==
    {s \in UNION {[1..n -> Range(ALL_EMOJIS)] : n \in 0..Len(ALL_EMOJIS)} :
        \A i, j \in 1..Len(s) : i # j => s[i] # s[j]}

-----------------------------------------------------------------------------
(* Message records *)

\* msg['image_path'] is one of: key absent, None, or the path of <id>.* on disk
\* (the path is modelled by the message id, which is >= 1)
KeyAbsent == -1
None == 0

\* a reaction_details dict: emoji -> count
NoCounts == [e \in {} |-> 0]

\* message.text or '[无文字内容]': the text of a message that has none
NoText == "[no text]"

\* msg['date'] is kept as the number of days after the epoch of calc_hotness
\* and msg['link'] as the message id it ends with.  A record built here has
\* no forwards, no views, no text and the epoch's date until Dated and
\* Described set them.
Record(id, reactions, has_details, details, total, photo, path) ==
    [id |-> id, reactions |-> reactions, has_details |-> has_details,
     reaction_details |-> details, total_reactions |-> total,
     has_photo |-> photo, image_path |-> path, forwards |-> 0, days |-> 0,
     views |-> 0, text |-> NoText, link |-> id]

\* the record with its 'text' and 'views'
Described(msg, text, views) == [msg EXCEPT !.text = text, !.views = views]

\* the record with its 'forwards' and 'date'
Dated(msg, forwards, days) == [msg EXCEPT !.forwards = forwards, !.days = days]

\* details.get(e, 0)
DictGet(details, e) == IF e \in DOMAIN details THEN details[e] ELSE 0

\* sum(details.get(e, 0) for e in target_emojis)
RECURSIVE SumTargets(_, _)
SumTargets(details, emojis) ==
    IF emojis = <<>> THEN 0
    ELSE DictGet(details, Head(emojis)) + SumTargets(details, Tail(emojis))

\* faulty variants of refilter_reactions: the sum added to the old value,
\* legacy records reset to 0, only the first target emoji counted
refilter_accumulate(messages, emojis) ==
    [i \in 1..Len(messages) |->
        IF messages[i].has_details
        THEN [messages[i] EXCEPT
                !.reactions = @ + SumTargets(messages[i].reaction_details, emojis)]
        ELSE messages[i]]

refilter_legacy_zeroed(messages, emojis) ==
    [i \in 1..Len(messages) |->
        [messages[i] EXCEPT
            !.reactions = IF messages[i].has_details
                          THEN SumTargets(messages[i].reaction_details, emojis)
                          ELSE 0]]

refilter_first_only(messages, emojis) ==
    [i \in 1..Len(messages) |->
        IF messages[i].has_details
        THEN [messages[i] EXCEPT
                !.reactions = IF emojis = <<>> THEN @
                              ELSE DictGet(messages[i].reaction_details, Head(emojis))]
        ELSE messages[i]]

HasTargetReactions(msg) == msg.reactions > 0

\* faulty variant: records left without a target reaction are taken out
refilter_dropping(messages, emojis) ==
    SelectSeq([i \in 1..Len(messages) |->
                  IF messages[i].has_details
                  THEN [messages[i] EXCEPT
                          !.reactions = SumTargets(messages[i].reaction_details, emojis)]
                  ELSE messages[i]],
              HasTargetReactions)

\* analyzer_core.refilter_reactions: the list it leaves behind (it changes the
\* records in place and returns the same list)
refilter_reactions(messages, emojis) ==
    [i \in 1..Len(messages) |->
        IF messages[i].has_details
        THEN [messages[i] EXCEPT
                !.reactions = SumTargets(messages[i].reaction_details, emojis)]
        ELSE messages[i]]

-----------------------------------------------------------------------------
(* Hotness *)

\* days / 800: the dates are taken DateStep days apart, counted from the
\* epoch 2020-01-01, so that 10^(days/800) is a whole number
DateStep == 800

RECURSIVE Pow10(_)
Pow10(n) == IF n = 0 THEN 1 ELSE 10 * Pow10(n - 1)

Max(a, b) == IF a >= b THEN a ELSE b
Min(a, b) == IF a <= b THEN a ELSE b

\* score = msg['reactions'] * 0.7 + msg['forwards'] * 0.3, times 10
Score10(msg) == 7 * msg.reactions + 3 * msg.forwards

\* faulty variant: the floor taken with min
calc_hotness_min_floor(msg) == Min(Score10(msg), 10) * Pow10(msg.days \div DateStep)

\* analyzer_core.calc_hotness.  The value is log10(max(score, 1)) + days/800
\* = log10(max(score, 1) * 10^(days/800)); the model keeps the argument of
\* that logarithm, times 10.  log10 is strictly increasing, so two hotness
\* values compare as these numbers do.
calc_hotness(msg) == Max(Score10(msg), 10) * Pow10(msg.days \div DateStep)

-----------------------------------------------------------------------------
(* The remote channel and the Fetcher *)

\* one remote message: its emoticon reactions, the number of reactions that
\* carry no emoticon (custom emoji), and whether it has a photo.
\* has_reactions says whether message.reactions is an object; a message built
\* here has one exactly when somebody reacted.  It has no forwards and the
\* epoch's date until Forwarded sets them.
RemoteMessage(id, emoticons, custom, photo) ==
    [id |-> id, emoticons |-> emoticons, custom |-> custom, photo |-> photo,
     has_reactions |-> (DOMAIN emoticons # {} \/ custom > 0),
     forwards |-> 0, days |-> 0]

\* the message with its forwards count and its date
Forwarded(m, forwards, days) == [m EXCEPT !.forwards = forwards, !.days = days]

\* a message whose reactions object lists no reaction (message.reactions.results
\* is empty): all its reactions were taken back
ReactionsWithdrawn(id, photo) ==
    [RemoteMessage(id, NoCounts, 0, photo) EXCEPT !.has_reactions = TRUE]

\* a channel with reactions, in iteration order (newest first): message 3 has
\* no reaction, 2 and 1 have photos; 2 was forwarded, which makes it the
\* hotter of the two although 1 has more target reactions by default
ChannelBusy ==
    << RemoteMessage(3, NoCounts, 0, FALSE),
       Forwarded(RemoteMessage(2, [e \in {"fire"} |-> 2], 0, TRUE), 4, 0),
       RemoteMessage(1, [e \in {"thumb", "fire"} |-> 1], 1, TRUE) >>

\* a channel on which nobody reacted
ChannelQuiet == << RemoteMessage(1, NoCounts, 0, FALSE) >>

Channels == {ChannelBusy, ChannelQuiet}

RECURSIVE SumCounts(_)
SumCounts(counts) ==
    IF DOMAIN counts = {} THEN 0
    ELSE LET e == CHOOSE x \in DOMAIN counts : TRUE
         IN counts[e] + SumCounts([x \in DOMAIN counts \ {e} |-> counts[x]])

\* if reaction_details or message.reactions: the message has a reactions object
\* (reaction_details is filled from it, so the first test adds nothing)
HasReactions(m) == m.has_reactions

\* the record both fetchers build for one message; only the web UI's fetcher
\* puts an image_path key in it
FetchedRecord(m, emojis, with_image_key) ==
    Dated(Record(m.id, SumTargets(m.emoticons, emojis), TRUE, m.emoticons,
                 SumCounts(m.emoticons) + m.custom, m.photo,
                 IF with_image_key THEN None ELSE KeyAbsent),
          m.forwards, m.days)

\* the scan loop: one record per message that has reactions
RECURSIVE ScanMessages(_, _, _)
ScanMessages(channel, emojis, with_image_key) ==
    IF channel = <<>> THEN <<>>
    ELSE (IF HasReactions(Head(channel))
          THEN <<FetchedRecord(Head(channel), emojis, with_image_key)>>
          ELSE <<>>)
         \o ScanMessages(Tail(channel), emojis, with_image_key)

\* analyzer_core.fetch_channel_messages (the bot's fetcher): (messages, total_checked)
fetch_channel_messages(channel, emojis) ==
    [messages |-> ScanMessages(channel, emojis, FALSE), total_checked |-> Len(channel)]

\* streamlit_app.fetch_messages_async on success: the target list is read from
\* the session state
fetch_messages_async(channel, emojis) ==
    [messages |-> ScanMessages(channel, emojis, TRUE), total_checked |-> Len(channel)]

-----------------------------------------------------------------------------
(* The cache files *)

\* What a cache file can hold:
\*   missing     no file
\*   malformed   text that is not JSON
\*   nonobject   JSON whose top-level value is not an object, such as []
\*   nokey       a JSON object that lacks an expected key
\*   badentries  a JSON object with the keys, whose list entries are not objects
\*   ok          a JSON object with the keys and a list of records
FileKinds == {"missing", "malformed", "nonobject", "nokey", "badentries", "ok"}

File(kind, messages, total) == [kind |-> kind, messages |-> messages, total_checked |-> total]

Missing == File("missing", <<>>, 0)

\* stands for a list entry that is not an object; its fields are never read
NotARecord == Record(0, 0, FALSE, NoCounts, 0, FALSE, KeyAbsent)

Broken(kind) ==
    File(kind, IF kind = "badentries" THEN <<NotARecord>> ELSE <<>>, 0)

\* faulty variant: a file that does not parse is removed
FileAfterRead_drop_broken(file) ==
    IF file.kind = "malformed" THEN Missing ELSE file

\* with open(path, 'r'): reading leaves the file as it is
FileAfterRead(file) == file

Loaded(status, messages, total, records) ==
    [status |-> status, messages |-> messages, total_checked |-> total, records |-> records]

\* analyzer_core.load_raw_cache: "miss" is (None, None, None), "raise" an
\* exception that neither except clause catches.  The entries are returned
\* unread; records tells whether they are records.
load_raw_cache(file) ==
    CASE file.kind = "missing"    -> Loaded("miss", <<>>, 0, TRUE)
      [] file.kind = "malformed"  -> Loaded("miss", <<>>, 0, TRUE)
      [] file.kind = "nokey"      -> Loaded("miss", <<>>, 0, TRUE)
      [] file.kind = "nonobject"  -> Loaded("raise", <<>>, 0, TRUE)
      [] file.kind = "badentries" -> Loaded("hit", file.messages, file.total_checked, FALSE)
      [] file.kind = "ok"         -> Loaded("hit", file.messages, file.total_checked, TRUE)

\* if img and not os.path.exists(img): msg['image_path'] = None
DropStaleImage(msg, on_disk) ==
    IF msg.image_path >= 1 /\ msg.image_path \notin on_disk
    THEN [msg EXCEPT !.image_path = None]
    ELSE msg

\* faulty variant: the stale-path check left out
load_cache_keep_stale(file, on_disk) ==
    CASE file.kind = "missing"    -> Loaded("miss", <<>>, 0, TRUE)
      [] file.kind = "malformed"  -> Loaded("miss", <<>>, 0, TRUE)
      [] file.kind = "nokey"      -> Loaded("miss", <<>>, 0, TRUE)
      [] file.kind = "nonobject"  -> Loaded("raise", <<>>, 0, TRUE)
      [] file.kind = "badentries" -> Loaded("raise", <<>>, 0, TRUE)
      [] file.kind = "ok"         -> Loaded("hit", file.messages, 0, TRUE)

\* streamlit_app.load_cache: "miss" is (None, None); msg.get on an entry that
\* is not an object raises AttributeError, which is not caught
load_cache(file, on_disk) ==
    CASE file.kind = "missing"    -> Loaded("miss", <<>>, 0, TRUE)
      [] file.kind = "malformed"  -> Loaded("miss", <<>>, 0, TRUE)
      [] file.kind = "nokey"      -> Loaded("miss", <<>>, 0, TRUE)
      [] file.kind = "nonobject"  -> Loaded("raise", <<>>, 0, TRUE)
      [] file.kind = "badentries" -> Loaded("raise", <<>>, 0, TRUE)
      [] file.kind = "ok"         ->
            Loaded("hit",
                   [i \in 1..Len(file.messages) |-> DropStaleImage(file.messages[i], on_disk)],
                   0, TRUE)

\* analyzer_core.save_raw_cache: the whole file is replaced
save_raw_cache(messages, total) == File("ok", messages, total)

\* streamlit_app.save_cache: the whole file is replaced
save_cache(messages) == File("ok", messages, 0)

-----------------------------------------------------------------------------
(* Scoring and media resolution *)

\* the media resolver looks at the first 50 records only
TopN == 50

RECURSIVE InsertByReactions(_, _)
InsertByReactions(sorted, msg) ==
    IF sorted = <<>> THEN <<msg>>
    ELSE IF Head(sorted).reactions >= msg.reactions
         THEN <<Head(sorted)>> \o InsertByReactions(Tail(sorted), msg)
         ELSE <<msg>> \o sorted

\* sorted(messages, key=lambda x: x['reactions'], reverse=True): descending
\* and stable
RECURSIVE sorted_by_reactions(_)
sorted_by_reactions(messages) ==
    IF messages = <<>> THEN <<>>
    ELSE InsertByReactions(
            sorted_by_reactions(SubSeq(messages, 1, Len(messages) - 1)),
            messages[Len(messages)])

RECURSIVE InsertByHotness(_, _)
InsertByHotness(sorted, msg) ==
    IF sorted = <<>> THEN <<msg>>
    ELSE IF calc_hotness(Head(sorted)) >= calc_hotness(msg)
         THEN <<Head(sorted)>> \o InsertByHotness(Tail(sorted), msg)
         ELSE <<msg>> \o sorted

\* sorted(messages, key=calc_hotness, reverse=True): descending and stable
RECURSIVE sorted_by_hotness(_)
sorted_by_hotness(messages) ==
    IF messages = <<>> THEN <<>>
    ELSE InsertByHotness(
            sorted_by_hotness(SubSeq(messages, 1, Len(messages) - 1)),
            messages[Len(messages)])

\* results[:50]
FirstN(s, n) == SubSeq(s, 1, IF Len(s) < n THEN Len(s) ELSE n)

\* faulty variant: the cut to the first 50 left out
ToDownload_all_photos(sorted) ==
    {sorted[i].id : i \in {j \in 1..Len(sorted) : sorted[j].has_photo}}

\* to_download: ids of the top records with has_photo
ToDownload(sorted) ==
    {sorted[i].id : i \in {j \in 1..Len(FirstN(sorted, TopN)) : sorted[j].has_photo}}

\* process_results_async up to the point where it may open a connection:
\* sort, give every record an image_path key, reuse the images on disk
ScoreAndReuse(raw_messages, on_disk) ==
    LET sorted == sorted_by_reactions(raw_messages)
    IN [i \in 1..Len(sorted) |->
           LET msg == IF sorted[i].image_path = KeyAbsent
                      THEN [sorted[i] EXCEPT !.image_path = None]
                      ELSE sorted[i]
           IN IF msg.id \in ToDownload(sorted) /\ msg.id \in on_disk
              THEN [msg EXCEPT !.image_path = msg.id]
              ELSE msg]

\* the records among to_download that still have no image: need_telegram
NeedTelegram(scored) ==
    {scored[i].id : i \in {j \in 1..Len(scored) :
        scored[j].id \in ToDownload(scored) /\ scored[j].image_path < 1}}

\* msg['image_path'] = downloaded, for the ids whose download succeeded
WithDownloads(scored, downloaded) ==
    [i \in 1..Len(scored) |->
        IF scored[i].id \in downloaded
        THEN [scored[i] EXCEPT !.image_path = scored[i].id]
        ELSE scored[i]]

\* the ids of need_telegram that the loop reaches before position i
NeededBefore(scored, i) ==
    {scored[j].id : j \in {k \in 1..(i - 1) : scored[k].id \in NeedTelegram(scored)}}

\* faulty variant: the first record whose image cannot be had ends the loop
DownloadLoop_stop_at_failure(scored, available) ==
    WithDownloads(scored,
        {scored[i].id : i \in {j \in 1..Len(scored) :
            /\ scored[j].id \in NeedTelegram(scored) \cap available
            /\ NeededBefore(scored, j) \subseteq available}})

\* for i, msg in enumerate(to_download): records that have an image are
\* skipped; get_messages and download_media succeed for the ids in available
\* and raise or return nothing for the others, which `except: pass` swallows
DownloadLoop(scored, available) ==
    WithDownloads(scored, NeedTelegram(scored) \cap available)

\* the files the loop left in the image directory
Downloaded(scored, resolved) ==
    {scored[i].id : i \in {j \in 1..Len(scored) :
        scored[j].image_path < 1 /\ resolved[j].image_path >= 1}}

\* faulty variant: the records without a target reaction are left out
process_results_async_with_targets_only(raw_messages, on_disk, available, failed) ==
    LET scored == ScoreAndReuse(raw_messages, on_disk)
        need == NeedTelegram(scored)
        resolved == DownloadLoop(scored, available)
    IN [error |-> need # {} /\ failed,
        results |-> IF need # {} /\ failed THEN <<>>
                    ELSE SelectSeq(resolved, HasTargetReactions),
        requested |-> need,
        on_disk |-> on_disk \cup Downloaded(scored, resolved)]

\* streamlit_app.process_results_async: (results, error), the ids it may ask
\* the remote side for and the image directory it leaves.  available are the
\* ids whose image can be had; failed says that the connection fails: the
\* session is not authorized or the channel does not resolve, before the loop,
\* or the disconnect fails, after it.
process_results_async(raw_messages, on_disk, available, failed) ==
    LET scored == ScoreAndReuse(raw_messages, on_disk)
        need == NeedTelegram(scored)
        resolved == DownloadLoop(scored, available)
    IN [error |-> need # {} /\ failed,
        results |-> IF need # {} /\ failed THEN <<>> ELSE resolved,
        requested |-> need,
        on_disk |-> on_disk \cup Downloaded(scored, resolved)]

-----------------------------------------------------------------------------
(* The web UI session *)

\* st.session_state.results: None, or a record list
NoResults == [some |-> FALSE, msgs |-> <<>>]
SomeResults(msgs) == [some |-> TRUE, msgs |-> msgs]

\* The running analysis request.  pc is the statement main() is at; the
\* other fields are its locals and a log of the request:
\*   req      force_reanalyze and the two files' contents when the button was hit
\*   trace    the stages that ran, in order
\*   used     the tiers whose data the request took
\*   seen     per load call, the kind of file it read and what it returned
\*   outcome  "done", "error" (st.error), "crashed" (uncaught exception)
\*   fetch    how the Fetcher's run ended: "none" (not run), "ok", "failed"
\*   cleared  the cache clearing that came last before the request, with no
\*            other request in between: "none", "result", "all"
\*   media    what the media stage met: the ids it had to ask the remote side
\*            for and the ids whose image could be had (both kept while the
\*            request runs), and whether the connection failed
UiIdle ==
    [pc |-> "idle", force |-> FALSE, raw_messages |-> <<>>, total_checked |-> 0,
     are_records |-> TRUE, processed |-> <<>>, fetch |-> "none", cleared |-> "none",
     media |-> [need |-> {}, available |-> {}, failed |-> FALSE],
     req |-> [force |-> FALSE, result |-> "missing", raw |-> "missing"],
     trace |-> <<>>, used |-> {}, outcome |-> "none",
     seen |-> [result |-> <<>>, raw |-> <<>>]]

\* the request ends: its locals are gone, its log stays
UiEnd(u, stage, outcome) ==
    [u EXCEPT !.pc = "idle", !.trace = Append(@, stage), !.outcome = outcome,
              !.raw_messages = <<>>, !.processed = <<>>,
              !.media = [@ EXCEPT !.need = {}, !.available = {}]]

\* if st.button("开始分析")
UiStartAnalysis(force) ==
    /\ ui.pc = "idle"
    /\ ui' = [UiIdle EXCEPT !.pc = "load_cache", !.force = force,
                            !.cleared = IF ui.trace = <<>> THEN ui.cleared ELSE "none",
                            !.req = [force |-> force, result |-> resultFile.kind,
                                     raw |-> rawFile.kind]]
    /\ UNCHANGED <<remote, rawFile, resultFile, images, target_emojis, results, bot, rf, call, loop>>

\* cached_results, analyzed_at = load_cache(channel_id), and tier 1.
\* after_hit is where main() goes on once it has taken the result cache.
UiLoadCacheThen(after_hit) ==
    /\ ui.pc = "load_cache"
    /\ LET loaded == load_cache(resultFile, images)
           u == [ui EXCEPT !.seen.result = <<resultFile.kind, loaded.status>>]
       IN /\ resultFile' = FileAfterRead(resultFile)
          /\ IF loaded.status = "raise"
             THEN /\ ui' = UiEnd(u, "load_cache", "crashed")
                  /\ UNCHANGED results
             ELSE IF loaded.status = "hit" /\ ~ui.force
             THEN /\ results' = SomeResults(refilter_reactions(loaded.messages, target_emojis))
                  /\ ui' = IF after_hit = "idle"
                           THEN [UiEnd(u, "load_cache", "done") EXCEPT !.used = @ \cup {"result"}]
                           ELSE [u EXCEPT !.pc = after_hit, !.trace = Append(@, "load_cache"),
                                          !.used = @ \cup {"result"}]
             ELSE /\ ui' = [u EXCEPT !.pc = "load_raw", !.trace = Append(@, "load_cache")]
                  /\ UNCHANGED results
    /\ UNCHANGED <<remote, rawFile, images, target_emojis, bot, rf, call, loop>>

\* faulty variant: the tiers tested one after the other instead of if / else
UiLoadCache_fall_through == UiLoadCacheThen("load_raw")

UiLoadCache == UiLoadCacheThen("idle")

\* faulty variant: the test on "忽略缓存" the wrong way round
UseRawCache_when_forced(loaded, force) == loaded.status = "hit" /\ force

\* if raw_messages is not None and not force_reanalyze
UseRawCache(loaded, force) == loaded.status = "hit" /\ ~force

\* raw_messages, total_checked, raw_fetched_at = load_raw_cache(channel_id)
UiLoadRaw ==
    /\ ui.pc = "load_raw"
    /\ LET loaded == load_raw_cache(rawFile)
           u == [ui EXCEPT !.seen.raw = <<rawFile.kind, loaded.status>>]
       IN /\ rawFile' = FileAfterRead(rawFile)
          /\ IF loaded.status = "raise"
             THEN ui' = UiEnd(u, "load_raw", "crashed")
             ELSE IF UseRawCache(loaded, ui.force)
             THEN ui' = [u EXCEPT !.pc = "process", !.trace = Append(@, "load_raw"),
                                  !.raw_messages = loaded.messages,
                                  !.total_checked = loaded.total_checked,
                                  !.are_records = loaded.records,
                                  !.used = @ \cup {"raw"}]
             ELSE ui' = [u EXCEPT !.pc = "fetch", !.trace = Append(@, "load_raw")]
    /\ UNCHANGED <<remote, resultFile, images, target_emojis, results, bot, rf, call, loop>>

\* faulty variant: the except clause hands back what the scan had collected
FetchFailed_keep_partial(partial) ==
    [error |-> FALSE, messages |-> partial.messages, total_checked |-> partial.total_checked]

\* fetch_messages_async when the session is not authorized or an exception is
\* raised (channel not resolvable, an error during the scan): (None, None, error),
\* whatever the scan had collected
FetchFailed(partial) == [error |-> TRUE, messages |-> <<>>, total_checked |-> 0]

\* run_async(fetch_messages_async(...)) and main()'s handling of what it
\* returns.  The Fetcher succeeds, or it fails after it scanned some of the
\* messages (none when it fails before the scan).
UiFetch(ok) ==
    /\ ui.pc = "fetch"
    /\ IF ok
       THEN LET fetched == fetch_messages_async(remote, target_emojis)
            IN ui' = [ui EXCEPT !.pc = "save_raw", !.trace = Append(@, "fetch"),
                                !.raw_messages = fetched.messages,
                                !.total_checked = fetched.total_checked,
                                !.fetch = "ok",
                                !.used = @ \cup {"fetch"}]
       ELSE \E scanned \in 0..Len(remote) :
               LET ret == FetchFailed(fetch_messages_async(SubSeq(remote, 1, scanned),
                                                           target_emojis))
                   u == [ui EXCEPT !.fetch = "failed"]
               IN IF ret.error
                  THEN ui' = UiEnd(u, "fetch", "error")
                  ELSE ui' = [u EXCEPT !.pc = "save_raw", !.trace = Append(@, "fetch"),
                                       !.raw_messages = ret.messages,
                                       !.total_checked = ret.total_checked]
    /\ UNCHANGED <<remote, rawFile, resultFile, images, target_emojis, results, bot, rf, call, loop>>

\* save_raw_cache(channel_id, title, raw_messages, total_checked)
UiSaveRaw ==
    /\ ui.pc = "save_raw"
    /\ rawFile' = save_raw_cache(ui.raw_messages, ui.total_checked)
    /\ ui' = [ui EXCEPT !.pc = "process", !.trace = Append(@, "save_raw")]
    /\ UNCHANGED <<remote, resultFile, images, target_emojis, results, bot, rf, call, loop>>

\* run_async(process_results_async(...)).  Entries that are not records make
\* sorted() raise.  When an image is missing a connection is opened: each
\* image can be had or not (available), and the stage as a whole returns an
\* error (failed) when the session is not authorized or the channel does not
\* resolve, before the loop, or when the disconnect fails, after it.
UiProcess ==
    /\ ui.pc = "process"
    /\ IF ~ui.are_records
       THEN /\ ui' = UiEnd(ui, "process", "crashed")
            /\ UNCHANGED images
       ELSE \E available \in SUBSET NeedTelegram(ScoreAndReuse(ui.raw_messages, images)),
               failed \in BOOLEAN :
               LET ret == process_results_async(ui.raw_messages, images, available, failed)
                   u == [ui EXCEPT !.media = [need |-> ret.requested,
                                              available |-> available,
                                              failed |-> ret.error]]
               IN /\ images' = ret.on_disk
                  /\ ui' = IF ret.error
                           THEN UiEnd(u, "process", "error")
                           ELSE [u EXCEPT !.pc = "save_result",
                                          !.trace = Append(@, "process"),
                                          !.processed = ret.results]
    /\ UNCHANGED <<remote, rawFile, resultFile, target_emojis, results, bot, rf, call, loop>>

\* save_cache(channel_id, title, results); st.session_state.results = results
UiSaveResult ==
    /\ ui.pc = "save_result"
    /\ resultFile' = save_cache(ui.processed)
    /\ results' = SomeResults(ui.processed)
    /\ ui' = UiEnd(ui, "save_result", "done")
    /\ UNCHANGED <<remote, rawFile, images, target_emojis, bot, rf, call, loop>>

\* the multiselect returned a list other than the session's
UiSelectEmojis(selected) ==
    /\ ui.pc = "idle"
    /\ selected # target_emojis
    /\ target_emojis' = selected
    /\ results' = IF results.some
                  THEN SomeResults(refilter_reactions(results.msgs, selected))
                  ELSE results
    /\ ui' = [UiIdle EXCEPT !.cleared = IF ui.trace = <<>> THEN ui.cleared ELSE "none"]
    /\ UNCHANGED <<remote, rawFile, resultFile, images, bot, rf, call, loop>>

\* if st.button("恢复默认")
UiRestoreDefault ==
    /\ ui.pc = "idle"
    /\ target_emojis' = DEFAULT_TARGET_EMOJIS
    /\ results' = IF results.some
                  THEN SomeResults(refilter_reactions(results.msgs, DEFAULT_TARGET_EMOJIS))
                  ELSE results
    /\ ui' = [UiIdle EXCEPT !.cleared = IF ui.trace = <<>> THEN ui.cleared ELSE "none"]
    /\ UNCHANGED <<remote, rawFile, resultFile, images, bot, rf, call, loop>>

\* the channel's files: the two cache files and the image directory
Disk == [result |-> resultFile, raw |-> rawFile, images |-> images]

\* faulty variant: the raw cache goes too
clear_result_cache_drops_raw(disk) ==
    [disk EXCEPT !.result = Missing, !.images = {}, !.raw = Missing]

\* streamlit_app.clear_result_cache: os.remove of the result cache and
\* shutil.rmtree of the image directory, each when it exists
clear_result_cache(disk) == [disk EXCEPT !.result = Missing, !.images = {}]

\* streamlit_app.clear_all_cache: clear_result_cache, then os.remove of the
\* raw cache when it exists
clear_all_cache(disk) == [clear_result_cache(disk) EXCEPT !.raw = Missing]

\* if st.button("清除结果缓存"): clear_result_cache, and the session's results
\* are dropped
UiClearResultCache ==
    /\ ui.pc = "idle"
    /\ LET disk == clear_result_cache(Disk)
       IN resultFile' = disk.result /\ rawFile' = disk.raw /\ images' = disk.images
    /\ results' = NoResults
    /\ ui' = [UiIdle EXCEPT !.cleared = "result"]
    /\ UNCHANGED <<remote, target_emojis, bot, rf, call, loop>>

\* if st.button("清除所有缓存"): clear_all_cache, and the session's results
\* are dropped
UiClearAllCache ==
    /\ ui.pc = "idle"
    /\ LET disk == clear_all_cache(Disk)
       IN resultFile' = disk.result /\ rawFile' = disk.raw /\ images' = disk.images
    /\ results' = NoResults
    /\ ui' = [UiIdle EXCEPT !.cleared = "all"]
    /\ UNCHANGED <<remote, target_emojis, bot, rf, call, loop>>

-----------------------------------------------------------------------------
(* The bot *)

\* pending: the sender has an entry in pending_sessions.  The other fields
\* are the locals of the handler that answers "1" or "2" and a log of what
\* it did so far: the stages that ran (trace) and the tiers it took data
\* from (used).  sorted_msgs and idx are the list send_results goes through
\* and the place it is at.  All of them end with the handler.
BotIdle ==
    [pc |-> "idle", pending |-> FALSE, sort_by_hotness |-> FALSE,
     messages |-> <<>>, total |-> 0, trace |-> <<>>, used |-> {},
     sorted_msgs |-> <<>>, idx |-> 0]

\* a forwarded message, an @handle or a link: the channel resolves or not
BotIdentify(resolved) ==
    /\ bot.pc = "idle"
    /\ bot' = IF resolved THEN [bot EXCEPT !.pending = TRUE] ELSE bot
    /\ UNCHANGED <<remote, rawFile, resultFile, images, target_emojis, results, ui, rf, call, loop>>

\* sorted(messages, key=..., reverse=True)[:50] of send_results
SortedForSending(messages, sort_by_hotness) ==
    FirstN(IF sort_by_hotness THEN sorted_by_hotness(messages)
                              ELSE sorted_by_reactions(messages), TopN)

\* the entry has a photo and get_image_path finds no image of it on disk:
\* send_results asks Telegram for it
AskedFor(msg, on_disk) == msg.has_photo /\ msg.id \notin on_disk

\* send_results up to its loop, for the handler b that calls it: the list is
\* sorted into a new one and cut to its first 50 entries, and the header goes
\* out.  Nothing of this touches the disk or the session, so it is taken
\* together with the step that leads to it.
StartSending(b) ==
    LET sorted_msgs == SortedForSending(b.messages, b.sort_by_hotness)
    IN IF sorted_msgs = <<>>
       THEN BotIdle
       ELSE [b EXCEPT !.pc = "entries", !.sorted_msgs = sorted_msgs, !.idx = 1]

\* "1" or "2" from a sender with a pending session: pop it, load_raw_cache,
\* and take the cached list if it is non-empty
BotChoose(text) ==
    /\ bot.pc = "idle"
    /\ bot.pending
    /\ LET loaded == load_raw_cache(rawFile)
           b == [BotIdle EXCEPT !.sort_by_hotness = (text = "1")]
       IN /\ rawFile' = FileAfterRead(rawFile)
          /\ IF loaded.status = "raise"
             THEN bot' = BotIdle
             ELSE IF loaded.status = "hit" /\ loaded.messages # <<>>
             THEN IF loaded.records
                  THEN bot' = StartSending(
                                 [b EXCEPT !.trace = <<"load_raw">>,
                                           !.messages = refilter_reactions(loaded.messages,
                                                                           cfg_target_emojis),
                                           !.total = loaded.total_checked,
                                           !.used = {"raw"}])
                  ELSE bot' = BotIdle
             ELSE bot' = [b EXCEPT !.pc = "fetching", !.trace = <<"load_raw">>]
    /\ UNCHANGED <<remote, resultFile, images, target_emojis, results, ui, rf, call, loop>>

\* await fetch_channel_messages(...): it returns, or raises and the handler
\* replies with the error
BotFetch(ok) ==
    /\ bot.pc = "fetching"
    /\ IF ok
       THEN LET fetched == fetch_channel_messages(remote, cfg_target_emojis)
            IN bot' = [bot EXCEPT !.pc = "fetched", !.trace = Append(@, "fetch"),
                                  !.messages = fetched.messages,
                                  !.total = fetched.total_checked,
                                  !.used = {"fetch"}]
       ELSE bot' = BotIdle
    /\ UNCHANGED <<remote, rawFile, resultFile, images, target_emojis, results, ui, rf, call, loop>>

\* if messages: save_raw_cache(...) and send_results; if not messages: reply
\* and return
BotSaveRaw ==
    /\ bot.pc = "fetched"
    /\ IF bot.messages # <<>>
       THEN /\ rawFile' = save_raw_cache(bot.messages, bot.total)
            /\ bot' = StartSending([bot EXCEPT !.trace = Append(@, "save_raw")])
       ELSE /\ bot' = BotIdle
            /\ UNCHANGED rawFile
    /\ UNCHANGED <<remote, resultFile, images, target_emojis, results, ui, rf, call, loop>>

\* faulty variant: an image that cannot be had ends send_results
BotAfterEntry_stop_at_failure(b, got_image) ==
    IF b.idx < Len(b.sorted_msgs) /\ got_image
    THEN [b EXCEPT !.idx = @ + 1]
    ELSE BotIdle

\* the end of one turn of the loop: the entry went out, with its image or as
\* text; the next entry follows, and send_results returns after the last
BotAfterEntry(b, got_image) ==
    IF b.idx < Len(b.sorted_msgs)
    THEN [b EXCEPT !.idx = @ + 1]
    ELSE BotIdle

\* one turn of the loop of send_results: an entry with a photo goes out with
\* the image on disk; when there is none the image is asked for and saved in
\* the image directory, which succeeds or not (downloaded); an entry whose
\* image could not be had or sent goes out as text
BotSendEntry(downloaded) ==
    /\ bot.pc = "entries"
    /\ LET msg == bot.sorted_msgs[bot.idx]
           asked == AskedFor(msg, images)
       IN /\ images' = IF asked /\ downloaded THEN images \cup {msg.id} ELSE images
          /\ bot' = BotAfterEntry(bot, ~asked \/ downloaded)
    /\ UNCHANGED <<remote, rawFile, resultFile, target_emojis, results, ui, rf, call, loop>>

-----------------------------------------------------------------------------
(* The system *)

\* no bare call of a pure function is under way
CallNone == [fn |-> "none"]

\* the senders of messages to the bot
Users == {"u1", "u2"}

\* most handlers under way at once, and most messages the bot receives
MaxHandlers == 2
MaxArrivals == 4

\* user_id not in pending_sessions
NoSession == 0

\* a handler slot with no handler in it.  n is the number of the message the
\* handler answers, session the session it popped, records whether the
\* cached entries it holds are records.
FreeHandler ==
    [pc |-> "free", n |-> 0, user |-> "u1", text |-> "", session |-> NoSession,
     messages |-> <<>>, total |-> 0, records |-> TRUE]

\* the bot after start-up: pending_sessions = {} and no message yet.  A
\* session is told apart by the number of the message that created it.  The
\* rest is a log: stored holds the sessions stored so far, analyses the
\* sessions popped, written the lists given to save_raw_cache and sent the
\* calls of send_results.
LoopIdle ==
    [pending_sessions |-> [u \in Users |-> NoSession],
     handlers |-> [h \in 1..MaxHandlers |-> FreeHandler],
     arrivals |-> 0,
     stored |-> {},
     analyses |-> <<>>,
     written |-> <<>>,
     sent |-> {}]

\* no bare call sequence of refilter_reactions is running
RfNone == [messages |-> <<>>, given |-> <<>>, emojis |-> <<>>, calls |-> 0, repeated |-> FALSE]

\* a result cache written by an earlier version: no reaction_details, and an
\* image_path that may no longer exist
LegacyResults == << Record(1, 2, FALSE, NoCounts, 3, TRUE, 1) >>

BrokenKinds == FileKinds \ {"missing", "ok"}

Init ==
    /\ remote \in Channels
    /\ rawFile \in {Missing} \cup {Broken(k) : k \in BrokenKinds}
                   \cup {save_raw_cache(<<>>, Len(remote)),
                         save_raw_cache(fetch_channel_messages(remote, cfg_target_emojis).messages,
                                        Len(remote))}
    /\ resultFile \in {Missing} \cup {Broken(k) : k \in BrokenKinds}
                      \cup {save_cache(LegacyResults)}
    /\ images \in {{}, {1}}
    /\ target_emojis = DEFAULT_TARGET_EMOJIS
    /\ results = NoResults
    /\ ui = UiIdle
    /\ bot = BotIdle
    /\ rf = RfNone
    /\ loop = LoopIdle
    /\ call = CallNone

Next ==
    \/ \E force \in BOOLEAN : UiStartAnalysis(force)
    \/ UiLoadCache
    \/ UiLoadRaw
    \/ \E ok \in BOOLEAN : UiFetch(ok)
    \/ UiSaveRaw
    \/ UiProcess
    \/ UiSaveResult
    \/ \E selected \in Selections : UiSelectEmojis(selected)
    \/ UiRestoreDefault
    \/ UiClearResultCache
    \/ UiClearAllCache
    \/ \E resolved \in BOOLEAN : BotIdentify(resolved)
    \/ \E text \in {"1", "2"} : BotChoose(text)
    \/ \E ok \in BOOLEAN : BotFetch(ok)
    \/ BotSaveRaw
    \/ \E downloaded \in BOOLEAN : BotSendEntry(downloaded)

Spec == Init /\ [][Next]_vars

-----------------------------------------------------------------------------
(* refilter_reactions on its own: any record list, any target list *)

\* every dict over the emojis with counts 1..MaxCount, the empty dict included
DetailDicts ==
    UNION {[S -> 1..MaxCount] : S \in SUBSET Range(ALL_EMOJIS)}

\* records as a caller can hold them: current ones and legacy ones
AnyRecords ==
    {Record(1, r, TRUE, d, 0, FALSE, None) : r \in {0, MaxCount}, d \in DetailDicts}
    \cup {Record(1, r, FALSE, NoCounts, 0, FALSE, None) : r \in {0, MaxCount}}

AnyRecordLists == UNION {[1..n -> AnyRecords] : n \in 0..MaxLen}

\* target lists as a caller can pass them (an environment variable can repeat
\* an emoji)
AnyTargetLists == UNION {[1..n -> Range(ALL_EMOJIS)] : n \in 0..MaxTargets}

\* The caller's list: given is the list as first handed over, messages the
\* list as the calls so far left it, emojis the target list of the last call
\* and repeated whether the call before it had the same target list.
\* refilter_reactions(messages, emojis) on the caller's list:
RefilterCall(emojis) ==
    /\ rf.calls < MaxCalls
    /\ rf' = [rf EXCEPT !.messages = refilter_reactions(rf.messages, emojis),
                        !.emojis = emojis,
                        !.repeated = (rf.calls > 0 /\ rf.emojis = emojis),
                        !.calls = @ + 1]
    /\ UNCHANGED <<remote, rawFile, resultFile, images, target_emojis, results, ui, bot, call, loop>>

InitRefilter ==
    /\ remote = ChannelQuiet
    /\ rawFile = Missing
    /\ resultFile = Missing
    /\ images = {}
    /\ target_emojis = DEFAULT_TARGET_EMOJIS
    /\ results = NoResults
    /\ ui = UiIdle
    /\ bot = BotIdle
    /\ call = CallNone
    /\ loop = LoopIdle
    /\ \E given \in AnyRecordLists :
          rf = [RfNone EXCEPT !.messages = given, !.given = given]

NextRefilter == \E emojis \in AnyTargetLists : RefilterCall(emojis)

SpecRefilter == InitRefilter /\ [][NextRefilter]_vars


-----------------------------------------------------------------------------
(* calc_hotness on its own: any two records *)

\* the fields of a record calc_hotness reads
HotnessInputs ==
    [reactions : 0..MaxReactions, forwards : 0..MaxForwards,
     days : {DateStep * k : k \in 0..MaxDateSteps}]

\* calc_hotness(r1) and calc_hotness(r2)
HotnessCall ==
    /\ call.fn = "calc_hotness"
    /\ ~call.done
    /\ call' = [call EXCEPT !.done = TRUE,
                            !.out = <<calc_hotness(call.r1), calc_hotness(call.r2)>>]
    /\ UNCHANGED <<remote, rawFile, resultFile, images, target_emojis, results, ui, bot, rf, loop>>

InitHotness ==
    /\ remote = ChannelQuiet
    /\ rawFile = Missing
    /\ resultFile = Missing
    /\ images = {}
    /\ target_emojis = DEFAULT_TARGET_EMOJIS
    /\ results = NoResults
    /\ ui = UiIdle
    /\ bot = BotIdle
    /\ rf = RfNone
    /\ loop = LoopIdle
    /\ \E r1, r2 \in HotnessInputs :
          call = [fn |-> "calc_hotness", r1 |-> r1, r2 |-> r2, done |-> FALSE, out |-> <<0, 0>>]

NextHotness == HotnessCall

SpecHotness == InitHotness /\ [][NextHotness]_vars

-----------------------------------------------------------------------------
(* process_results_async on its own: lists longer than the cut *)

\* the records of a list that differ from the rest
MaxVarying == 2

\* the rest: records without a photo, each with one target reaction
Padding(n, path) ==
    [i \in 1..n |-> Record(MaxVarying + i, 1, TRUE, [e \in {"thumb"} |-> 1], 1, FALSE, path)]

\* a record with no target reaction or two, with a photo or none
VaryingRecords(id, path) ==
    {Record(id, r, TRUE, [e \in {"thumb", "fire"} |-> r \div 2], 2, photo, path) :
        r \in {0, 2}, photo \in BOOLEAN}

\* raw lists as the Fetcher of the web UI (image_path None) or of the bot (no
\* image_path key) leaves them: the varying records, then none or
\* TopN - 1 others, which puts varying records on both sides of the cut
ResolveInputs ==
    UNION {{v \o Padding(n, path) :
                v \in {w \in [1..MaxVarying -> UNION {VaryingRecords(id, path) : id \in 1..MaxVarying}] :
                          \A i \in 1..MaxVarying : w[i].id = i},
                n \in {0, TopN - 1}} :
           path \in {None, KeyAbsent}}

\* process_results_async(channel, raw_messages, ...) over a connection that holds
ResolveCall ==
    /\ call.fn = "process_results_async"
    /\ ~call.done
    /\ call' = [call EXCEPT !.done = TRUE,
                            !.ret = process_results_async(call.raw_messages, call.on_disk,
                                                          call.available, FALSE)]
    /\ UNCHANGED <<remote, rawFile, resultFile, images, target_emojis, results, ui, bot, rf, loop>>

InitResolve ==
    /\ remote = ChannelQuiet
    /\ rawFile = Missing
    /\ resultFile = Missing
    /\ images = {}
    /\ target_emojis = DEFAULT_TARGET_EMOJIS
    /\ results = NoResults
    /\ ui = UiIdle
    /\ bot = BotIdle
    /\ rf = RfNone
    /\ loop = LoopIdle
    /\ \E raw_messages \in ResolveInputs, on_disk, available \in SUBSET (1..MaxVarying) :
          call = [fn |-> "process_results_async", raw_messages |-> raw_messages,
                  on_disk |-> on_disk, available |-> available, done |-> FALSE,
                  ret |-> process_results_async(<<>>, {}, {}, FALSE)]

NextResolve == ResolveCall

SpecResolve == InitResolve /\ [][NextResolve]_vars

-----------------------------------------------------------------------------
(* The Fetchers on their own: any channel *)

\* longest channel scanned
MaxMessages == 2

\* a remote message as iter_messages hands it over: no reactions object, a
\* reactions object that lists no reaction, or one that lists emoticon
\* reactions and reactions without an emoticon
AnyRemoteMessages(id) ==
    {RemoteMessage(id, d, custom, id = 1) : d \in DetailDicts, custom \in 0..1}
    \cup {ReactionsWithdrawn(id, id = 1)}

AnyChannels ==
    UNION {{c \in [1..n -> UNION {AnyRemoteMessages(id) : id \in 1..n}] :
               \A i \in 1..n : c[i].id = n + 1 - i} : n \in 0..MaxMessages}

\* fetch_channel_messages(client, entity, target_emojis) or, with the target
\* list of the session, fetch_messages_async(channel, ...), run to the end
FetchCall ==
    /\ call.fn \in {"fetch_channel_messages", "fetch_messages_async"}
    /\ ~call.done
    /\ call' = [call EXCEPT !.done = TRUE,
                            !.ret = IF call.fn = "fetch_channel_messages"
                                    THEN fetch_channel_messages(call.channel, call.emojis)
                                    ELSE fetch_messages_async(call.channel, call.emojis)]
    /\ UNCHANGED <<remote, rawFile, resultFile, images, target_emojis, results, ui, bot, rf, loop>>

InitFetch ==
    /\ remote = ChannelQuiet
    /\ rawFile = Missing
    /\ resultFile = Missing
    /\ images = {}
    /\ target_emojis = DEFAULT_TARGET_EMOJIS
    /\ results = NoResults
    /\ ui = UiIdle
    /\ bot = BotIdle
    /\ rf = RfNone
    /\ loop = LoopIdle
    /\ \E fn \in {"fetch_channel_messages", "fetch_messages_async"},
          channel \in AnyChannels, emojis \in Selections :
          call = [fn |-> fn, channel |-> channel, emojis |-> emojis, done |-> FALSE,
                  ret |-> [messages |-> <<>>, total_checked |-> 0]]

NextFetch == FetchCall

SpecFetch == InitFetch /\ [][NextFetch]_vars

-----------------------------------------------------------------------------
(* The presenters *)

\* A text is kept as the sequence of its lines and a line as a record of the
\* values formatted into it; an outbound message likewise.

RECURSIVE SumReactions(_)
\* sum(m['reactions'] for m in messages)
SumReactions(messages) ==
    IF messages = <<>> THEN 0
    ELSE Head(messages).reactions + SumReactions(Tail(messages))

RECURSIVE SumTotals(_)
\* sum(m['total_reactions'] for m in messages)
SumTotals(messages) ==
    IF messages = <<>> THEN 0
    ELSE Head(messages).total_reactions + SumTotals(Tail(messages))

\* the lines of one entry of generate_report
ReportEntry(idx, msg) ==
    << [kind |-> "rank", idx |-> idx],
       [kind |-> "date", days |-> msg.days],
       [kind |-> "views", views |-> msg.views, forwards |-> msg.forwards],
       [kind |-> "reactions", target |-> msg.reactions, total |-> msg.total_reactions],
       [kind |-> "text", text |-> msg.text],
       [kind |-> "link", link |-> msg.link],
       [kind |-> "rule"] >>

\* for idx, msg in enumerate(messages, first): the lines of all entries, the
\* entry of messages[k] numbered first + k - 1
ReportEntries(messages, first) ==
    [i \in 1..(7 * Len(messages)) |->
        ReportEntry(first + ((i - 1) \div 7), messages[1 + ((i - 1) \div 7)])[1 + ((i - 1) % 7)]]

\* the summary lines; the share line only if total_all > 0
SummaryLines(count, total_target, total_all) ==
    << [kind |-> "blank"], [kind |-> "summary"],
       [kind |-> "count", count |-> count],
       [kind |-> "target_sum", sum |-> total_target],
       [kind |-> "total_sum", sum |-> total_all] >>
    \o (IF total_all > 0
        THEN << [kind |-> "share", target |-> total_target, total |-> total_all] >>
        ELSE <<>>)

\* what a presenter hands back: its text or outbound messages, the list it
\* was given as it leaves it, and the image directory as it leaves it
Presented(out, messages, on_disk) == [out |-> out, messages |-> messages, on_disk |-> on_disk]

\* faulty variant: the entries numbered from 0
generate_report_from_zero(messages, channel_title, on_disk) ==
    Presented(<< [kind |-> "head"], [kind |-> "title", title |-> channel_title],
                 [kind |-> "generated"], [kind |-> "rule"], [kind |-> "blank"] >>
              \o ReportEntries(messages, 0)
              \o SummaryLines(Len(messages), SumReactions(messages), SumTotals(messages)),
              messages, on_disk)

\* streamlit_app.generate_report
generate_report(messages, channel_title, on_disk) ==
    Presented(<< [kind |-> "head"], [kind |-> "title", title |-> channel_title],
                 [kind |-> "generated"], [kind |-> "rule"], [kind |-> "blank"] >>
              \o ReportEntries(messages, 1)
              \o SummaryLines(Len(messages), SumReactions(messages), SumTotals(messages)),
              messages, on_disk)

\* the entries of format_top_messages
TopEntries(sorted_msgs) ==
    [idx \in 1..Len(sorted_msgs) |->
        [kind |-> "entry", idx |-> idx, target |-> sorted_msgs[idx].reactions,
         views |-> sorted_msgs[idx].views, text |-> sorted_msgs[idx].text,
         link |-> sorted_msgs[idx].link]]

\* analyzer_core.format_top_messages with top_n=50: it has no summary
format_top_messages(messages, channel_title, on_disk) ==
    LET sorted_msgs == FirstN(sorted_by_reactions(messages), TopN)
    IN Presented(IF sorted_msgs = <<>>
                 THEN << [kind |-> "empty", title |-> channel_title] >>
                 ELSE << [kind |-> "head", title |-> channel_title, top |-> Len(sorted_msgs)],
                         [kind |-> "generated"], [kind |-> "blank"] >>
                      \o TopEntries(sorted_msgs),
                 messages, on_disk)

\* top_n of display_results when the caller names none
DisplayTopN == 10

\* telegram_channel_selector.display_results: what it prints (the text of a
\* record is never longer than the 200 characters printed)
display_results(messages, channel_title, top_n, on_disk) ==
    Presented(IF messages = <<>>
              THEN << [kind |-> "empty"] >>
              ELSE << [kind |-> "rule"], [kind |-> "title", title |-> channel_title, top |-> top_n],
                      [kind |-> "rule"] >>
                   \o ReportEntries(FirstN(sorted_by_reactions(messages), top_n), 1)
                   \o SummaryLines(Len(messages), SumReactions(messages), SumTotals(messages)),
              messages, on_disk)

\* the caption of an entry of the chat presenters
Caption(idx, msg, with_hotness) ==
    [idx |-> idx, days |-> msg.days, with_hotness |-> with_hotness,
     hotness |-> IF with_hotness THEN calc_hotness(msg) ELSE 0,
     target |-> msg.reactions, total |-> msg.total_reactions,
     views |-> msg.views, forwards |-> msg.forwards, text |-> msg.text, link |-> msg.link]

\* an outbound message: a photo with its caption, or text
Outbound(kind, caption) == [kind |-> kind, caption |-> caption]

\* the header of the chat presenters
Header(title, count, total_target, total_all) ==
    [kind |-> "header", title |-> title, count |-> count,
     target_sum |-> total_target, total_sum |-> total_all]

\* await asyncio.sleep(1)
Sleep == [kind |-> "sleep", seconds |-> 1]

\* faulty variant: the pause only after an entry that went out with an image
Paced_media_only(entries) ==
    LET Go[i \in 0..Len(entries)] ==
            IF i = 0 THEN <<>>
            ELSE Go[i - 1] \o <<entries[i]>>
                 \o (IF entries[i].kind = "file" THEN <<Sleep>> ELSE <<>>)
    IN Go[Len(entries)]

\* the turns of the loop of a chat presenter: each entry goes out and
\* asyncio.sleep(1) follows it
Paced(entries) ==
    [i \in 1..(2 * Len(entries)) |-> IF i % 2 = 1 THEN entries[(i + 1) \div 2] ELSE Sleep]

\* the loop of send_report_to_saved: an entry goes out with its image if
\* image_path is set and the file exists, and as text otherwise
SavedEntries(messages, on_disk) ==
    [idx \in 1..Len(messages) |->
        Outbound(IF messages[idx].image_path >= 1 /\ messages[idx].image_path \in on_disk
                 THEN "file" ELSE "message",
                 Caption(idx, messages[idx], FALSE))]

\* streamlit_app.send_report_to_saved
send_report_to_saved(messages, channel_title, authorized, on_disk) ==
    Presented(IF authorized
              THEN << Header(channel_title, Len(messages), SumReactions(messages),
                             SumTotals(messages)) >>
                   \o Paced(SavedEntries(messages, on_disk))
              ELSE <<>>,
              messages, on_disk)

\* the image directory when the loop of send_results reaches entry idx: the
\* images there at the start and those the earlier turns asked for and got
\* (an image asked for arrives and is saved when its id is in available)
DiskBefore(sorted_msgs, idx, on_disk, available) ==
    on_disk \cup {sorted_msgs[j].id : j \in {k \in 1..(idx - 1) :
                      sorted_msgs[k].has_photo /\ sorted_msgs[k].id \in available}}

\* the loop of send_results: what goes out, and the image directory after it
SentEntries(sorted_msgs, with_hotness, on_disk, available) ==
    [out |-> [idx \in 1..Len(sorted_msgs) |->
                LET msg == sorted_msgs[idx]
                    asked == AskedFor(msg, DiskBefore(sorted_msgs, idx, on_disk, available))
                    sent == msg.has_photo /\ (~asked \/ msg.id \in available)
                IN Outbound(IF sent THEN "file" ELSE "message",
                            Caption(idx, msg, with_hotness))],
     on_disk |-> DiskBefore(sorted_msgs, Len(sorted_msgs) + 1, on_disk, available)]

\* faulty variant: the list sorted in place
send_results_sort_in_place(messages, title, sort_by_hotness, on_disk, available) ==
    LET sorted_msgs == SortedForSending(messages, sort_by_hotness)
        sent == SentEntries(sorted_msgs, sort_by_hotness, on_disk, available)
    IN IF sorted_msgs = <<>>
       THEN Presented(<< [kind |-> "empty", title |-> title] >>, messages, on_disk)
       ELSE Presented(<< Header(title, Len(sorted_msgs), SumReactions(sorted_msgs),
                                SumTotals(sorted_msgs)) >> \o Paced(sent.out),
                      IF sort_by_hotness THEN sorted_by_hotness(messages)
                                         ELSE sorted_by_reactions(messages),
                      sent.on_disk)

\* telegram_bot.send_results, as a whole
send_results(messages, title, sort_by_hotness, on_disk, available) ==
    LET sorted_msgs == SortedForSending(messages, sort_by_hotness)
        sent == SentEntries(sorted_msgs, sort_by_hotness, on_disk, available)
    IN IF sorted_msgs = <<>>
       THEN Presented(<< [kind |-> "empty", title |-> title] >>, messages, on_disk)
       ELSE Presented(<< Header(title, Len(sorted_msgs), SumReactions(sorted_msgs),
                                SumTotals(sorted_msgs)) >> \o Paced(sent.out),
                      messages, sent.on_disk)

-----------------------------------------------------------------------------
(* The presenters on their own: any list, sorted or not, longer than the cut or not *)

\* the records of a list that differ from the rest
MaxShown == 2

\* a photo record with no reaction at all or with two target reactions out of
\* three, with no image or with an image path, with a text or without (the
\* records without a photo are the others of the list)
ShownRecords(id) ==
    {Described(Record(id, r, TRUE,
                      IF r = 0 THEN NoCounts
                      ELSE [e \in {"thumb", "fire"} |-> IF e = "thumb" THEN r ELSE r \div 2],
                      (3 * r) \div 2, image[1], image[2]), text, id) :
        r \in {0, 2}, text \in {NoText, "text"},
        image \in {<<TRUE, None>>, <<TRUE, id>>}}

\* up to MaxShown such records, then none or TopN - 1 others
ReportInputs ==
    UNION {{v \o Padding(n, None) :
                v \in {w \in [1..k -> UNION {ShownRecords(id) : id \in 1..k}] :
                          \A i \in 1..k : w[i].id = i},
                n \in {0, TopN - 1}} :
           k \in 0..MaxShown}

Presenters ==
    {"generate_report", "format_top_messages", "display_results",
     "send_report_to_saved", "send_results"}

\* one call of a presenter, run to the end
ReportCall ==
    /\ call.fn \in Presenters
    /\ ~call.done
    /\ call' = [call EXCEPT
          !.done = TRUE,
          !.ret = CASE call.fn = "generate_report" ->
                         generate_report(call.messages, call.channel_title, call.on_disk)
                    [] call.fn = "format_top_messages" ->
                         format_top_messages(call.messages, call.channel_title, call.on_disk)
                    [] call.fn = "display_results" ->
                         display_results(call.messages, call.channel_title, call.top_n,
                                         call.on_disk)
                    [] call.fn = "send_report_to_saved" ->
                         send_report_to_saved(call.messages, call.channel_title,
                                              call.authorized, call.on_disk)
                    [] call.fn = "send_results" ->
                         send_results(call.messages, call.channel_title,
                                      call.sort_by_hotness, call.on_disk, call.available)]
    /\ UNCHANGED <<remote, rawFile, resultFile, images, target_emojis, results, ui, bot, rf, loop>>

InitReport ==
    /\ remote = ChannelQuiet
    /\ rawFile = Missing
    /\ resultFile = Missing
    /\ images = {}
    /\ target_emojis = DEFAULT_TARGET_EMOJIS
    /\ results = NoResults
    /\ ui = UiIdle
    /\ bot = BotIdle
    /\ rf = RfNone
    /\ loop = LoopIdle
    /\ \E fn \in Presenters, messages \in ReportInputs, on_disk \in {{}, {1}},
          top_n \in {1, DisplayTopN}, authorized, sort_by_hotness \in BOOLEAN,
          available \in {{}, 1..MaxShown} :
          /\ fn # "display_results" => top_n = DisplayTopN
          /\ fn # "send_report_to_saved" => authorized
          /\ fn # "send_results" => ~sort_by_hotness /\ available = {}
          /\ call = [fn |-> fn, messages |-> messages, channel_title |-> "channel",
                     top_n |-> top_n, authorized |-> authorized,
                     sort_by_hotness |-> sort_by_hotness, on_disk |-> on_disk,
                     available |-> available, done |-> FALSE,
                     ret |-> Presented(<<>>, <<>>, {})]

NextReport == ReportCall

SpecReport == InitReport /\ [][NextReport]_vars

-----------------------------------------------------------------------------
(* load_config on its own: any environment, any config.toml *)

\* the keys load_config returns whose value may come from the environment,
\* with the variable it reads
EnvKeys ==
    {"api_id", "api_hash", "phone", "code", "password", "channel", "start_date", "end_date"}

\* the keys it takes from config.toml alone
FileKeys == {"session_name", "proxy"}

\* the keys the callers and the tests expect besides
ExpectedKeys == EnvKeys \cup FileKeys \cup {"target_emojis", "bot_token"}

\* os.getenv(name) is None; key not in its section of config.toml
Unset == "<unset>"
Absent == "<absent>"

\* Python's None and '' as values of a key
PyNone == "<None>"
Empty == ""

\* the environment or the file sets at most this many of the keys
MaxSet == 2

\* a value the environment gives a key: the empty string or a text (for
\* api_id a numeral with a leading zero, or no numeral)
EnvValues(key) == IF key = "api_id" THEN {Empty, "012", "abc"} ELSE {Empty, "env"}

\* a value config.toml gives a key ([proxy] is cut down to its type, given
\* when enabled is true)
FileValues(key) ==
    CASE key = "api_id" -> {"34"}
      [] key = "proxy" -> {"SOCKS5", "bogus"}
      [] OTHER -> {"file"}

\* int(api_id_raw): the number a numeral denotes, ValueError otherwise
IsNumeral(s) == s \in {"012", "12", "34"}
ToInt(s) == IF s = "012" THEN "12" ELSE s

\* the built-in default of a key
DefaultOf(key) ==
    CASE key \in {"api_id", "api_hash", "proxy"} -> PyNone
      [] key = "session_name" -> "telegram_session"
      [] OTHER -> Empty

\* os.getenv(NAME) or section.get(key, default)
EnvOrFile(env, file, key) ==
    IF env[key] \notin {Unset, Empty} THEN env[key]
    ELSE IF file[key] # Absent THEN file[key]
    ELSE DefaultOf(key)

\* section.get(key, default)
FileOnly(env, file, key) == IF file[key] # Absent THEN file[key] ELSE DefaultOf(key)

\* type_map.get(proxy_type_str, socks.HTTP), with the default host and port
ProxyTuple(type) == IF type = PyNone THEN PyNone ELSE IF type = "SOCKS5" THEN "SOCKS5" ELSE "HTTP"

\* config_loader.load_config: the dict it returns (keys, value) or the
\* ValueError of int()
load_config(env, file) ==
    LET api_id_raw == EnvOrFile(env, file, "api_id")
    IN IF api_id_raw # PyNone /\ ~IsNumeral(api_id_raw)
       THEN [raised |-> TRUE, keys |-> {}, value |-> [k \in {} |-> Empty]]
       ELSE [raised |-> FALSE,
             keys |-> EnvKeys \cup FileKeys,
             value |-> [k \in EnvKeys \cup FileKeys |->
                 CASE k = "api_id" -> IF api_id_raw = PyNone THEN PyNone ELSE ToInt(api_id_raw)
                   [] k = "session_name" -> FileOnly(env, file, k)
                   [] k = "proxy" -> ProxyTuple(FileOnly(env, file, k))
                   [] OTHER -> EnvOrFile(env, file, k)]]

\* one call of load_config
ConfigCall ==
    /\ call.fn = "load_config"
    /\ ~call.done
    /\ call' = [call EXCEPT !.done = TRUE, !.ret = load_config(call.env, call.file)]
    /\ UNCHANGED <<remote, rawFile, resultFile, images, target_emojis, results, ui, bot, rf, loop>>

\* the settings of an environment or a file that set at most MaxSet keys
\* (values[k] are the values key k can be set to)
Settings(values, unset) ==
    UNION {{[k \in ExpectedKeys |-> IF k \in set THEN v[k] ELSE unset] :
                v \in {w \in [set -> UNION {values[k] : k \in set}] :
                          \A k \in set : w[k] \in values[k]}} :
           set \in {t \in SUBSET ExpectedKeys : Cardinality(t) <= MaxSet}}

InitConfig ==
    /\ remote = ChannelQuiet
    /\ rawFile = Missing
    /\ resultFile = Missing
    /\ images = {}
    /\ target_emojis = DEFAULT_TARGET_EMOJIS
    /\ results = NoResults
    /\ ui = UiIdle
    /\ bot = BotIdle
    /\ rf = RfNone
    /\ loop = LoopIdle
    /\ \E env \in Settings([k \in ExpectedKeys |-> EnvValues(k)], Unset),
          file \in Settings([k \in ExpectedKeys |-> FileValues(k)], Absent) :
          call = [fn |-> "load_config", env |-> env, file |-> file, done |-> FALSE,
                  ret |-> load_config([k \in ExpectedKeys |-> Unset],
                                      [k \in ExpectedKeys |-> Absent])]

NextConfig == ConfigCall

SpecConfig == InitConfig /\ [][NextConfig]_vars

-----------------------------------------------------------------------------
(* The ranking the web UI shows *)

\* main(): sorted_results, a sorted copy of the session's results (no keyword
\* set), by hotness or by target reactions
sorted_results(filtered, by_hotness) ==
    IF by_hotness THEN sorted_by_hotness(filtered) ELSE sorted_by_reactions(filtered)

-----------------------------------------------------------------------------
(* The progress reports of fetch_channel_messages: any estimate, any scan *)

\* largest estimated total and largest number of messages scanned
MaxEstimate == 11
MaxScanned == 12

\* faulty variant: a boundary is reported only once it is left behind
ProgressLoop_strict(estimated_total, scanned, total_checked, last_reported) ==
    LET Go[c \in 0..scanned, last \in 0..(100 * scanned)] ==
            IF c = scanned THEN <<>>
            ELSE LET pct == ((c + 1) * 100) \div estimated_total
                 IN IF pct > last + 10
                    THEN <<(pct \div 10) * 10>> \o Go[c + 1, (pct \div 10) * 10]
                    ELSE Go[c + 1, last]
    IN Go[total_checked, last_reported]

\* the scan loop as far as progress goes, from total_checked messages and the
\* last percentage reported on: the percentages passed to on_progress, in
\* the order of the calls
ProgressLoop(estimated_total, scanned, total_checked, last_reported) ==
    LET Go[c \in 0..scanned, last \in 0..(100 * scanned)] ==
            IF c = scanned THEN <<>>
            ELSE LET pct == ((c + 1) * 100) \div estimated_total
                 IN IF pct >= last + 10
                    THEN <<(pct \div 10) * 10>> \o Go[c + 1, (pct \div 10) * 10]
                    ELSE Go[c + 1, last]
    IN Go[total_checked, last_reported]

\* what on_progress is called with during fetch_channel_messages over a
\* channel that yields `scanned` messages: nothing without a callback or with
\* an estimate of 0
on_progress_calls(supplied, estimated_total, scanned) ==
    IF supplied /\ estimated_total # 0
    THEN ProgressLoop(estimated_total, scanned, 0, 0)
    ELSE <<>>

\* one fetch, as far as progress goes
ProgressCall ==
    /\ call.fn = "on_progress"
    /\ ~call.done
    /\ call' = [call EXCEPT !.done = TRUE,
                            !.reports = on_progress_calls(call.supplied, call.estimated_total,
                                                          call.scanned)]
    /\ UNCHANGED <<remote, rawFile, resultFile, images, target_emojis, results, ui, bot, rf, loop>>

InitProgress ==
    /\ remote = ChannelQuiet
    /\ rawFile = Missing
    /\ resultFile = Missing
    /\ images = {}
    /\ target_emojis = DEFAULT_TARGET_EMOJIS
    /\ results = NoResults
    /\ ui = UiIdle
    /\ bot = BotIdle
    /\ rf = RfNone
    /\ loop = LoopIdle
    /\ \E supplied \in BOOLEAN, estimated_total \in 0..MaxEstimate, scanned \in 0..MaxScanned :
          call = [fn |-> "on_progress", supplied |-> supplied,
                  estimated_total |-> estimated_total, scanned |-> scanned,
                  done |-> FALSE, reports |-> <<>>]

NextProgress == ProgressCall

SpecProgress == InitProgress /\ [][NextProgress]_vars

-----------------------------------------------------------------------------
(* The bot's event loop: the handlers of several messages under way at once *)

\* the channel after a new message with a reaction was posted to it
ChannelGrown == << RemoteMessage(4, [e \in {"thumb"} |-> 1], 0, FALSE) >> \o ChannelBusy

\* what a sender can send: a text, forwarded from a channel or not ("1" and
\* "2" are also the texts that are no channel when no session is pending)
Inbound == {<<"1", FALSE>>, <<"2", FALSE>>, <<"@chan", FALSE>>, <<"hi", TRUE>>}

\* re.match(r'(?:https?://t\.me/|@)([a-zA-Z][\w]{3,})', text)
MatchesChannel(text) == text \in {"@chan", "https://t.me/chan"}

FreeHandlers == {h \in 1..MaxHandlers : loop.handlers[h].pc = "free"}

\* the handler returns (or raises): its slot is free again
HandlerEnds(l, h) == [l EXCEPT !.handlers[h] = FreeHandler]

\* a message arrives and its handler runs up to its first await.
\*   "1" or "2" from a sender with a session: the session is popped and the
\*   raw cache read at once; the handler then waits for its first reply;
\*   a forwarded channel message, a link or a handle: the handler waits for
\*   get_entity;
\*   anything else: the help text is the handler's last statement.
\* The senders are alike, so the first to write is taken to be u1.
LoopArrive(user, text, fwd) ==
    /\ loop.arrivals < MaxArrivals
    /\ loop.arrivals = 0 => user = "u1"
    /\ FreeHandlers # {}
    /\ LET h == CHOOSE x \in FreeHandlers : \A y \in FreeHandlers : x <= y
           n == loop.arrivals + 1
           l == [loop EXCEPT !.arrivals = n]
           mine == [FreeHandler EXCEPT !.n = n, !.user = user, !.text = text]
       IN IF text \in {"1", "2"} /\ loop.pending_sessions[user] # NoSession
          THEN LET session == loop.pending_sessions[user]
                   loaded == load_raw_cache(rawFile)
                   popped == [l EXCEPT !.pending_sessions[user] = NoSession,
                                       !.analyses = Append(@, [n |-> n, user |-> user,
                                                               session |-> session,
                                                               text |-> text])]
                   taken == [mine EXCEPT !.session = session]
               IN /\ rawFile' = FileAfterRead(rawFile)
                  /\ IF loaded.status = "raise"
                     THEN loop' = popped
                     ELSE IF loaded.status = "hit" /\ loaded.messages # <<>>
                     THEN loop' = [popped EXCEPT !.handlers[h] =
                                      [taken EXCEPT !.pc = "cached",
                                                    !.messages = loaded.messages,
                                                    !.total = loaded.total_checked,
                                                    !.records = loaded.records]]
                     ELSE loop' = [popped EXCEPT !.handlers[h] =
                                      [taken EXCEPT !.pc = "fetching"]]
          ELSE /\ UNCHANGED rawFile
               /\ IF fwd \/ MatchesChannel(text)
                  THEN loop' = [l EXCEPT !.handlers[h] = [mine EXCEPT !.pc = "resolving"]]
                  ELSE loop' = l
    /\ UNCHANGED <<remote, resultFile, images, target_emojis, results, ui, bot, rf, call>>

\* get_entity returns, or raises and the handler replies with the error.
\* With the entity the session is stored, whatever is stored already, and
\* the question for the sort order is the handler's last statement.
LoopResolve(h, ok) ==
    /\ loop.handlers[h].pc = "resolving"
    /\ LET me == loop.handlers[h]
       IN loop' = IF ok
                  THEN HandlerEnds([loop EXCEPT !.pending_sessions[me.user] = me.n,
                                                !.stored = @ \cup {[n |-> me.n,
                                                                     user |-> me.user]}], h)
                  ELSE HandlerEnds(loop, h)
    /\ UNCHANGED <<remote, rawFile, resultFile, images, target_emojis, results, ui, bot, rf, call>>

\* the reply "using cached data" went out: refilter_reactions, then
\* send_results up to its header
LoopUseCache(h) ==
    /\ loop.handlers[h].pc = "cached"
    /\ LET me == loop.handlers[h]
       IN loop' = IF me.records
                  THEN [loop EXCEPT !.handlers[h].pc = "sending",
                                    !.handlers[h].messages =
                                        refilter_reactions(me.messages, cfg_target_emojis)]
                  ELSE HandlerEnds(loop, h)
    /\ UNCHANGED <<remote, rawFile, resultFile, images, target_emojis, results, ui, bot, rf, call>>

\* await fetch_channel_messages(...): it returns what the channel holds now,
\* or raises and the handler replies with the error
LoopFetch(h, ok) ==
    /\ loop.handlers[h].pc = "fetching"
    /\ LET fetched == fetch_channel_messages(remote, cfg_target_emojis)
       IN loop' = IF ok
                  THEN [loop EXCEPT !.handlers[h].pc = "fetched",
                                    !.handlers[h].messages = fetched.messages,
                                    !.handlers[h].total = fetched.total_checked]
                  ELSE HandlerEnds(loop, h)
    /\ UNCHANGED <<remote, rawFile, resultFile, images, target_emojis, results, ui, bot, rf, call>>

\* faulty variant: the list is added to the one in the file
LoopSave_appending(h) ==
    /\ loop.handlers[h].pc = "fetched"
    /\ LET me == loop.handlers[h]
       IN IF me.messages # <<>>
          THEN /\ rawFile' = save_raw_cache(rawFile.messages \o me.messages, me.total)
               /\ loop' = [loop EXCEPT !.handlers[h].pc = "sending",
                                       !.written = Append(@, me.messages)]
          ELSE /\ loop' = HandlerEnds(loop, h)
               /\ UNCHANGED rawFile
    /\ UNCHANGED <<remote, resultFile, images, target_emojis, results, ui, bot, rf, call>>

\* the progress message is deleted; if messages: save_raw_cache(...), which
\* has no await in it; if not messages: reply and return; else send_results
\* up to its header
LoopSave(h) ==
    /\ loop.handlers[h].pc = "fetched"
    /\ LET me == loop.handlers[h]
       IN IF me.messages # <<>>
          THEN /\ rawFile' = save_raw_cache(me.messages, me.total)
               /\ loop' = [loop EXCEPT !.handlers[h].pc = "sending",
                                       !.written = Append(@, me.messages)]
          ELSE /\ loop' = HandlerEnds(loop, h)
               /\ UNCHANGED rawFile
    /\ UNCHANGED <<remote, resultFile, images, target_emojis, results, ui, bot, rf, call>>

\* the loop of send_results with sort_by_hotness=(text == '1'): the images it
\* retrieves are saved in the image directory
LoopSend(h, available) ==
    /\ loop.handlers[h].pc = "sending"
    /\ LET me == loop.handlers[h]
           sort_by_hotness == (me.text = "1")
           sent == send_results(me.messages, "title", sort_by_hotness, images, available)
       IN /\ images' = sent.on_disk
          /\ loop' = HandlerEnds([loop EXCEPT !.sent = @ \cup {[n |-> me.n,
                                                         sort_by_hotness |-> sort_by_hotness]}], h)
    /\ UNCHANGED <<remote, rawFile, resultFile, target_emojis, results, ui, bot, rf, call>>

\* somebody posts to the channel
ChannelGrows ==
    /\ remote = ChannelBusy
    /\ remote' = ChannelGrown
    /\ UNCHANGED <<rawFile, resultFile, images, target_emojis, results, ui, bot, rf, call, loop>>

InitBot ==
    /\ remote \in Channels
    /\ rawFile \in {Missing,
                    save_raw_cache(fetch_channel_messages(remote, cfg_target_emojis).messages,
                                   Len(remote))}
    /\ resultFile = Missing
    /\ images = {}
    /\ target_emojis = DEFAULT_TARGET_EMOJIS
    /\ results = NoResults
    /\ ui = UiIdle
    /\ bot = BotIdle
    /\ rf = RfNone
    /\ call = CallNone
    /\ loop = LoopIdle

NextBot ==
    \/ \E user \in Users, m \in Inbound : LoopArrive(user, m[1], m[2])
    \/ \E h \in 1..MaxHandlers, ok \in BOOLEAN : LoopResolve(h, ok)
    \/ \E h \in 1..MaxHandlers : LoopUseCache(h)
    \/ \E h \in 1..MaxHandlers, ok \in BOOLEAN : LoopFetch(h, ok)
    \/ \E h \in 1..MaxHandlers : LoopSave(h)
    \/ \E h \in 1..MaxHandlers, available \in {{}, {1, 2}} : LoopSend(h, available)
    \/ ChannelGrows

SpecBot == InitBot /\ [][NextBot]_vars

-----------------------------------------------------------------------------
(* The client connections of the remote operations *)

\* the awaited calls of one run are numbered along the path the run takes;
\* a run is given the number of the call that raises (0: none does)
MaxAwaits == 8

\* What became of the client along `path` when call number `fails` raises
\* (calls in `guarded` sit in a try block of their own whose except clause
\* passes).  connect opens the connection unless it is the call that raises;
\* disconnect is taken to close it even when it raises.
RunPath(path, fails, guarded) ==
    LET raised == fails \in 1..Len(path) /\ path[fails] \notin guarded
        n == IF raised THEN fails ELSE Len(path)
        Connected[i \in 0..n] ==
            IF i = 0 THEN FALSE
            ELSE CASE path[i] = "connect"    -> ~(raised /\ i = n)
                   [] path[i] = "disconnect" -> FALSE
                   [] OTHER                  -> Connected[i - 1]
    IN [calls |-> SubSeq(path, 1, n),
        raised |-> raised,
        opened |-> \E i \in 1..n : path[i] = "connect" /\ ~(raised /\ i = n),
        connected |-> Connected[n]]

\* how the operation ended: it returned or raised, with the connection open
\* or not
Ended(run, outcome, connected) ==
    [calls |-> run.calls, opened |-> run.opened, outcome |-> outcome, connected |-> connected]

\* except Exception as e: return ..., str(e)
ExceptReturns(run) == Ended(run, "return", run.connected)

\* except Exception as e: try: await client.disconnect() except Exception: pass; return ...
ExceptDisconnects(run) == Ended(run, "return", IF run.raised THEN FALSE ELSE run.connected)

\* no except clause: the exception leaves the function
Propagates(run) == Ended(run, IF run.raised THEN "raise" ELSE "return", run.connected)

\* connect and is_user_authorized, and the disconnect that follows at once
\* when the session is not authorized
Connecting(authorized, rest) ==
    <<"connect", "is_user_authorized">> \o (IF authorized THEN rest ELSE <<"disconnect">>)

\* streamlit_app.check_connection
check_connection(a) ==
    ExceptReturns(RunPath(<<"connect", "is_user_authorized", "disconnect">>, a.fails, {}))

\* streamlit_app.fetch_channels
fetch_channels(a) ==
    ExceptReturns(RunPath(Connecting(a.authorized, <<"iter_dialogs", "disconnect">>),
                          a.fails, {}))

\* streamlit_app.fetch_messages_async, as far as its client goes
fetch_messages_async_client(a) ==
    ExceptDisconnects(RunPath(Connecting(a.authorized,
                                         <<"get_entity", "iter_messages", "disconnect">>),
                              a.fails, {}))

\* streamlit_app.process_results_async, as far as its client goes: a client is
\* made only when an image is missing, and the calls of the download loop are
\* in a try block of their own
process_results_async_client(a) ==
    IF a.need_telegram
    THEN ExceptDisconnects(RunPath(Connecting(a.authorized,
                                              <<"get_entity", "get_messages", "download_media",
                                                "disconnect">>),
                                   a.fails, {"get_messages", "download_media"}))
    ELSE ExceptDisconnects(RunPath(<<>>, a.fails, {}))

\* streamlit_app.send_report_to_saved, as far as its client goes
send_report_to_saved_client(a) ==
    ExceptDisconnects(RunPath(Connecting(a.authorized,
                                         <<"send_message">>
                                         \o (IF a.has_entry THEN <<"send_file", "sleep">> ELSE <<>>)
                                         \o <<"disconnect">>),
                              a.fails, {}))

\* the calls of telegram_channel_selector.create_client: with a session that
\* is not authorized a code is requested; without CODE the client is
\* disconnected; sign_in may ask for the two-step password, and without
\* PASSWORD the client is disconnected
LoginPath(a) ==
    <<"connect", "is_user_authorized">>
    \o (IF a.authorized THEN <<>>
        ELSE <<"send_code_request">>
             \o (IF ~a.code THEN <<"disconnect">>
                 ELSE <<"sign_in">>
                      \o (IF ~a.two_step THEN <<>>
                          ELSE IF ~a.password THEN <<"disconnect">>
                          ELSE <<"sign_in_password">>)))

\* telegram_channel_selector.create_client: nothing catches what connect,
\* is_user_authorized, send_code_request or sign_in(password=...) raise, and
\* an error of sign_in other than the request for the password is raised again
create_client(a) == Propagates(RunPath(LoginPath(a), a.fails, {}))

\* create_client returned the client and not None
ReturnsClient(login) == login.outcome = "return" /\ login.connected

\* telegram_channel_selector.main: create_client, and with a client the work
\* in a try block whose finally clause disconnects
selector_main(a) ==
    LET login == create_client(a)
        work == RunPath(<<"get_channels", "analyze_channel">>,
                        IF a.fails > Len(LoginPath(a)) THEN a.fails - Len(LoginPath(a)) ELSE 0,
                        {})
    IN IF ReturnsClient(login)
       THEN [calls |-> login.calls \o work.calls \o <<"disconnect">>,
             opened |-> login.opened,
             outcome |-> IF work.raised THEN "raise" ELSE "return",
             connected |-> FALSE]
       ELSE login

\* the operations that make a client
RemoteOperations ==
    {"check_connection", "fetch_channels", "fetch_messages_async",
     "process_results_async", "send_report_to_saved", "create_client", "main"}

RunOperation(fn, a) ==
    CASE fn = "check_connection"       -> check_connection(a)
      [] fn = "fetch_channels"         -> fetch_channels(a)
      [] fn = "fetch_messages_async"   -> fetch_messages_async_client(a)
      [] fn = "process_results_async"  -> process_results_async_client(a)
      [] fn = "send_report_to_saved"   -> send_report_to_saved_client(a)
      [] fn = "create_client"          -> create_client(a)
      [] fn = "main"                   -> selector_main(a)

\* one run of one operation
ConnectionCall ==
    /\ call.fn \in RemoteOperations
    /\ ~call.done
    /\ call' = [call EXCEPT !.done = TRUE, !.ended = RunOperation(call.fn, call.args)]
    /\ UNCHANGED <<remote, rawFile, resultFile, images, target_emojis, results, ui, bot, rf, loop>>

InitConnection ==
    /\ remote = ChannelQuiet
    /\ rawFile = Missing
    /\ resultFile = Missing
    /\ images = {}
    /\ target_emojis = DEFAULT_TARGET_EMOJIS
    /\ results = NoResults
    /\ ui = UiIdle
    /\ bot = BotIdle
    /\ rf = RfNone
    /\ loop = LoopIdle
    /\ \E fn \in RemoteOperations, fails \in 0..MaxAwaits,
          authorized \in BOOLEAN, need_telegram \in BOOLEAN, has_entry \in BOOLEAN,
          code \in BOOLEAN, two_step \in BOOLEAN, password \in BOOLEAN :
          call = [fn |-> fn,
                  args |-> [fails |-> fails, authorized |-> authorized,
                            need_telegram |-> need_telegram, has_entry |-> has_entry,
                            code |-> code, two_step |-> two_step, password |-> password],
                  done |-> FALSE,
                  ended |-> Ended(RunPath(<<>>, 0, {}), "none", FALSE)]

NextConnection == ConnectionCall

SpecConnection == InitConnection /\ [][NextConnection]_vars

-----------------------------------------------------------------------------
(* Properties of the tiered lookup (checked under Spec) *)

\* how often emoji e stands in the target list
Occurrences(emojis, e) == Cardinality({i \in 1..Len(emojis) : emojis[i] = e})

\* the counts of the target emojis in a reaction_details dict, added up entry
\* by entry of the dict
TargetTotal(details, emojis) ==
    SumCounts([e \in DOMAIN details |-> details[e] * Occurrences(emojis, e)])

IsPrefix(s, t) == Len(s) <= Len(t) /\ \A i \in 1..Len(s) : s[i] = t[i]

IsLookup(stage) == stage \in {"load_cache", "load_raw", "fetch"}

\* the data sources a request consulted, in order
Lookups(trace) == SelectSeq(trace, IsLookup)

\* the step is the one that ends the web UI's analysis request
UiCompletes == ui.pc # "idle" /\ ui'.pc = "idle"

\* the request found no readable result cache and a readable raw cache when
\* it started, and force-refresh is off
C1Case(u) == ~u.req.force /\ u.req.result # "ok" /\ u.req.raw = "ok"

\* C1 as stated: such a request never invokes the Fetcher, and when it
\* completes a readable result cache exists.  (Requests that an uncaught
\* exception ends are left out here: C6 is about them.)
C1_Original ==
    [][(UiCompletes /\ C1Case(ui') /\ ui'.outcome # "crashed") =>
          /\ "fetch" \notin Range(ui'.trace)
          /\ resultFile'.kind = "ok"]_vars

\* C1 as amended: such a request never invokes the Fetcher, and when it
\* completes without an error (media resolution reported none and nothing
\* raised) it has written the result cache; a request that ends in an error
\* writes none.
C1_RawTierSkipsFetch ==
    [][C1Case(ui') =>
          /\ ui'.pc \notin {"fetch", "save_raw"}
          /\ "fetch" \notin Range(ui'.trace)
          /\ (UiCompletes /\ ui'.outcome = "done") =>
                /\ ui'.trace = <<"load_cache", "load_raw", "process", "save_result">>
                /\ resultFile'.kind = "ok"
                /\ resultFile'.messages = results'.msgs
          /\ (UiCompletes /\ ui'.outcome # "done") => resultFile' = resultFile]_vars

C1_Witness ==
    /\ ui.pc = "idle"
    /\ C1Case(ui)
    /\ ui.outcome = "done"
    /\ resultFile.kind = "ok"
    /\ resultFile.messages # <<>>

\* the step is the web UI's load_cache call, it finds a readable result cache
\* and force-refresh is off
C2Case == ui.pc = "load_cache" /\ ui'.pc # "load_cache" /\ resultFile.kind = "ok" /\ ~ui.force

\* what the step does otherwise: the request ends there, nothing was fetched
\* or resolved, no file changed, and the session holds one record per cached
\* record, with `reactions` re-aggregated where reaction_details is present
C2Frame ==
    /\ ui'.pc = "idle"
    /\ ui'.trace = <<"load_cache">>
    /\ rawFile' = rawFile /\ resultFile' = resultFile /\ images' = images
    /\ results'.some
    /\ Len(results'.msgs) = Len(resultFile.messages)
    /\ \A i \in 1..Len(resultFile.messages) :
          results'.msgs[i].reactions =
             IF resultFile.messages[i].has_details
             THEN TargetTotal(resultFile.messages[i].reaction_details, target_emojis)
             ELSE resultFile.messages[i].reactions

\* C2 as stated: the session results are the cached records with only
\* `reactions` changed.
C2_Original ==
    [][C2Case =>
          /\ C2Frame
          /\ \A i \in 1..Len(resultFile.messages) :
                [results'.msgs[i] EXCEPT !.reactions = resultFile.messages[i].reactions]
                   = resultFile.messages[i]]_vars

\* C2 as amended: the session results are the cached records with `reactions`
\* re-aggregated and with image_path set to None where the cached path names
\* an image that is no longer on disk; every other field is the cached one.
C2_ResultTierReuses ==
    [][C2Case =>
          /\ C2Frame
          /\ \A i \in 1..Len(resultFile.messages) :
                LET cached == resultFile.messages[i]
                    stale == cached.image_path >= 1 /\ cached.image_path \notin images
                IN [results'.msgs[i] EXCEPT !.reactions = cached.reactions]
                      = [cached EXCEPT !.image_path = IF stale THEN None ELSE @]]_vars

C2_Witness ==
    /\ ui.pc = "idle"
    /\ ui.outcome = "done"
    /\ ui.trace = <<"load_cache">>
    /\ results.some
    /\ resultFile.kind = "ok"
    /\ \E i \in 1..Len(resultFile.messages) :
          /\ resultFile.messages[i].has_details
          /\ results.msgs[i].reactions # resultFile.messages[i].reactions

\* force-refresh is on, or the request found neither cache readable: not when
\* it started and, for the raw cache, not when it read it
C3Case(u) ==
    \/ u.req.force
    \/ /\ u.req.result # "ok"
       /\ u.req.raw # "ok"
       /\ u.seen.raw # <<>> => u.seen.raw[1] # "ok"

\* C3: such a request invokes the Fetcher; after a successful fetch the raw
\* cache is written before scoring and media resolution run, and the result
\* cache after them.
C3_Original ==
    [][(UiCompletes /\ C3Case(ui')) =>
          ui'.trace \in
             { <<"load_cache", "load_raw", "fetch">>,
               <<"load_cache", "load_raw", "fetch", "save_raw", "process">>,
               <<"load_cache", "load_raw", "fetch", "save_raw", "process", "save_result">> }]_vars

\* C4: between requests, every record of the session results that has
\* reaction_details has `reactions` equal to the sum of its reaction_details
\* counts over the selected target emojis.
C4_Original ==
    (ui.pc = "idle" /\ results.some) =>
        \A i \in 1..Len(results.msgs) :
           results.msgs[i].has_details =>
              results.msgs[i].reactions =
                 TargetTotal(results.msgs[i].reaction_details, target_emojis)

\* the order the spec gives for every entry point
TierOrder == <<"load_cache", "load_raw", "fetch">>

\* the raw cache is read only when the result cache was not taken, and the
\* Fetcher runs only when the raw cache was not taken
TakenInTurn(r) ==
    /\ "load_raw" \in Range(r.trace) => "result" \notin r.used
    /\ "fetch" \in Range(r.trace) => "raw" \notin r.used

\* C5 as stated: the web UI and the bot both consult the result cache first,
\* then the raw cache, then the Fetcher.
C5_Original ==
    /\ IsPrefix(Lookups(ui.trace), TierOrder) /\ TakenInTurn(ui)
    /\ IsPrefix(Lookups(bot.trace), TierOrder) /\ TakenInTurn(bot)

\* C5 as amended: the web UI consults the result cache, then the raw cache,
\* then the Fetcher; the bot never consults the result cache: it consults
\* the raw cache, then the Fetcher; in both, a later source is consulted only
\* when the earlier one was not taken.
C5_TierOrder ==
    /\ IsPrefix(Lookups(ui.trace), TierOrder) /\ TakenInTurn(ui)
    /\ IsPrefix(Lookups(bot.trace), <<"load_raw", "fetch">>) /\ TakenInTurn(bot)

C5_Witness ==
    /\ Lookups(ui.trace) = TierOrder
    /\ ui.used = {"fetch"}
    /\ Lookups(bot.trace) = <<"load_raw", "fetch">>
    /\ bot.used = {"fetch"}

\* C6: a load call on a file that is missing, not JSON, or JSON without the
\* expected fields returns a miss, and no load call raises.
C6_Original ==
    \A s \in {ui.seen.result, ui.seen.raw} :
       s # <<>> =>
          /\ s[2] # "raise"
          /\ s[1] # "ok" => s[2] = "miss"

\* C7: a load call that fails on a malformed file leaves the file as it
\* was, and the lookup goes on as it does when there is no file: the web UI
\* from the result cache to the raw cache and from the raw cache to the
\* Fetcher, the bot from the raw cache to the Fetcher.
C7_FailedReadKeepsFile ==
    [][/\ (ui.pc = "load_cache" /\ ui'.pc # "load_cache" /\ resultFile.kind = "malformed") =>
             /\ resultFile' = resultFile
             /\ ui'.pc = "load_raw"
             /\ ui'.seen.result = <<"malformed", "miss">>
       /\ (ui.pc = "load_raw" /\ ui'.pc # "load_raw" /\ rawFile.kind = "malformed") =>
             /\ rawFile' = rawFile
             /\ ui'.pc = "fetch"
             /\ ui'.seen.raw = <<"malformed", "miss">>
       /\ (bot.pending /\ ~bot'.pending /\ rawFile.kind = "malformed") =>
             /\ rawFile' = rawFile
             /\ bot'.pc = "fetching"]_vars

C7_Witness ==
    /\ ui.pc = "fetch"
    /\ ui.seen.result = <<"malformed", "miss">>
    /\ ui.seen.raw = <<"malformed", "miss">>
    /\ resultFile.kind = "malformed"
    /\ rawFile.kind = "malformed"

-----------------------------------------------------------------------------
(* Properties of refilter_reactions (checked under SpecRefilter) *)

\* C8: after a refilter_reactions call every record that has reaction_details
\* has `reactions` equal to the sum, over the entries of the target list, of
\* that emoji's count in its reaction_details (0 for an emoji not in it); with
\* an empty target list that is 0.
C8_RefilterSumsTargets ==
    rf.calls > 0 =>
        /\ Len(rf.messages) = Len(rf.given)
        /\ \A i \in 1..Len(rf.messages) :
              rf.messages[i].has_details =>
                 /\ rf.messages[i].reactions =
                        TargetTotal(rf.messages[i].reaction_details, rf.emojis)
                 /\ rf.emojis = <<>> => rf.messages[i].reactions = 0

C8_Witness ==
    /\ rf.calls > 0
    /\ Len(rf.emojis) = 2
    /\ \E i \in 1..Len(rf.messages) :
          /\ rf.messages[i].has_details
          /\ rf.messages[i].reactions = 2
          /\ rf.given[i].reactions # 2

\* C9: a record without reaction_details is, after any number of
\* refilter_reactions calls with any target lists, the record it was:
\* its `reactions` value is the one it came with.
C9_LegacyReactionsKept ==
    /\ Len(rf.messages) = Len(rf.given)
    /\ \A i \in 1..Len(rf.given) :
          ~rf.given[i].has_details =>
             /\ rf.messages[i].reactions = rf.given[i].reactions
             /\ ~rf.messages[i].has_details

C9_Witness ==
    /\ rf.calls >= 2
    /\ rf.emojis # <<>>
    /\ \E i \in 1..Len(rf.given) :
          ~rf.given[i].has_details /\ rf.messages[i].reactions > 0

\* C10: a refilter_reactions call with the target list of the call before it
\* leaves every record's `reactions` as that call left it.
C10_RefilterIdempotent ==
    [][rf'.repeated =>
          /\ Len(rf'.messages) = Len(rf.messages)
          /\ \A i \in 1..Len(rf.messages) :
                rf'.messages[i].reactions = rf.messages[i].reactions]_vars

C10_Witness ==
    /\ rf.repeated
    /\ \E i \in 1..Len(rf.messages) :
          /\ rf.messages[i].has_details
          /\ rf.messages[i].reactions > 0
          /\ rf.messages[i].reactions # rf.given[i].reactions

-----------------------------------------------------------------------------
(* Properties of calc_hotness (checked under SpecHotness) *)

\* both hotness values are there, and r1 and r2 have equal dates and r1 more
\* target reactions than r2
C11Case == call.done /\ call.r1.days = call.r2.days /\ call.r1.reactions > call.r2.reactions

-----------------------------------------------------------------------------
(* Properties of failures and of media resolution (checked under Spec) *)

\* the step is the Fetcher's run of the web UI's request, and it fails
UiFetchFails == ui.pc = "fetch" /\ ui'.fetch = "failed"

\* the step is the Fetcher's run of the bot's handler, and it fails
BotFetchFails == bot.pc = "fetching" /\ bot'.pc = "idle"

\* C12: when the Fetcher fails, the request ends there with an error, the
\* records the failed fetch had collected are dropped, the session results
\* stay what they were, and neither cache file (nor the image directory) is
\* created or changed; the same for the bot's handler.
C12_FailedFetchKeepsNothing ==
    [][/\ UiFetchFails =>
             /\ ui'.pc = "idle" /\ ui'.outcome = "error"
             /\ ui'.raw_messages = <<>> /\ ui'.processed = <<>>
             /\ results' = results
             /\ rawFile' = rawFile /\ resultFile' = resultFile /\ images' = images
       /\ BotFetchFails =>
             /\ bot'.messages = <<>>
             /\ rawFile' = rawFile /\ resultFile' = resultFile /\ images' = images]_vars

\* a forced request whose fetch failed on a channel with records, both cache
\* files being there
C12_Witness ==
    /\ ui.pc = "idle"
    /\ ui.fetch = "failed"
    /\ ui.req.force
    /\ remote = ChannelBusy
    /\ rawFile.kind = "ok" /\ rawFile.messages # <<>>
    /\ resultFile.kind = "ok"
    /\ results.some

\* the step is the media stage of the web UI's request, run on records
UiResolves == ui.pc = "process" /\ ui'.pc # "process" /\ ui.are_records

\* the photo records among the first 50 of the sorted list that have no image
\* on disk
PhotosToFetch(sorted, on_disk) ==
    {sorted[i].id : i \in {j \in 1..Len(sorted) :
        j <= TopN /\ sorted[j].has_photo /\ sorted[j].id \notin on_disk}}

\* C13: whichever images of the top-50 photo records cannot be had, the media
\* stage goes through all of them: unless the connection itself fails, every
\* record whose image could be had has it as image_path, every record whose
\* image could not be had has image_path None, the stage returns the whole
\* list and the request goes on to save and show it.  In the bot an entry
\* whose image could not be had does not end the loop: the next entry follows.
C13_ImageFailureSkipsRecord ==
    [][/\ (UiResolves /\ ~ui'.media.failed) =>
             LET sorted == sorted_by_reactions(ui.raw_messages)
                 need == PhotosToFetch(sorted, images)
             IN /\ ui'.pc = "save_result"
                /\ Len(ui'.processed) = Len(ui.raw_messages)
                /\ need # {} => ui'.media.need = need
                /\ \A i \in 1..Len(sorted) :
                      /\ ui'.processed[i].id = sorted[i].id
                      /\ sorted[i].id \in need =>
                            ui'.processed[i].image_path =
                               IF sorted[i].id \in ui'.media.available
                               THEN sorted[i].id ELSE None
                /\ images' = images \cup (need \cap ui'.media.available)
       /\ (ui.pc = "save_result" /\ ui'.pc # "save_result") =>
             /\ ui'.outcome = "done"
             /\ results' = SomeResults(ui.processed)
             /\ resultFile' = save_cache(ui.processed)
       /\ (bot.pc = "entries" /\ bot' # bot /\ bot.idx < Len(bot.sorted_msgs)) =>
             /\ bot'.pc = "entries"
             /\ bot'.idx = bot.idx + 1
             /\ bot'.sorted_msgs = bot.sorted_msgs]_vars

\* the image of the first record asked for could not be had, the image of a
\* later one could, and the request is about to save the list
C13_Witness ==
    /\ ui.pc = "save_result"
    /\ Cardinality(ui.media.need) = 2
    /\ Len(ui.processed) = 2
    /\ ui.processed[1].id \in ui.media.need \ ui.media.available
    /\ ui.processed[1].image_path = None
    /\ ui.processed[2].id \in ui.media.available
    /\ ui.processed[2].image_path = ui.processed[2].id
    /\ ui.processed[2].id \in images

-----------------------------------------------------------------------------
(* Properties of media resolution on its own (checked under SpecResolve) *)

\* the place of raw_messages[i] in the list sorted by reactions, descending,
\* records with equal reactions in their order in raw_messages
RankByReactions(raw_messages, i) ==
    1 + Cardinality({j \in 1..Len(raw_messages) :
            \/ raw_messages[j].reactions > raw_messages[i].reactions
            \/ raw_messages[j].reactions = raw_messages[i].reactions /\ j < i})

\* the record of the returned list with the given id
ResultOf(ret, id) == ret.results[CHOOSE k \in 1..Len(ret.results) : ret.results[k].id = id]

\* C14: the media stage considers a record only when it is among the first
\* 50 of the list sorted by reactions and has a photo.  A considered record
\* whose image is on disk gets that file as image_path and is not asked for;
\* a considered record without one is asked for; a record that is not
\* considered is not asked for and ends with image_path None, also when an
\* image of it is on disk.
C14_ResolverScope ==
    call.done =>
        /\ Len(call.ret.results) = Len(call.raw_messages)
        /\ \A i \in 1..Len(call.raw_messages) :
              LET msg == call.raw_messages[i]
                  considered == RankByReactions(call.raw_messages, i) <= TopN /\ msg.has_photo
              IN /\ (considered /\ msg.id \in call.on_disk) =>
                       /\ ResultOf(call.ret, msg.id).image_path = msg.id
                       /\ msg.id \notin call.ret.requested
                 /\ (considered /\ msg.id \notin call.on_disk) =>
                       msg.id \in call.ret.requested
                 /\ ~considered =>
                       /\ ResultOf(call.ret, msg.id).image_path = None
                       /\ msg.id \notin call.ret.requested
                       /\ msg.id \in call.ret.on_disk <=> msg.id \in call.on_disk

\* a list of 51 records: the 50th and the 51st have a photo and an image on
\* disk, the 50th got it and the 51st did not
C14_Witness ==
    /\ call.done
    /\ Len(call.raw_messages) = TopN + 1
    /\ call.ret.results[TopN].has_photo /\ call.ret.results[TopN + 1].has_photo
    /\ {call.ret.results[TopN].id, call.ret.results[TopN + 1].id} \subseteq call.on_disk
    /\ call.ret.results[TopN].image_path = call.ret.results[TopN].id
    /\ call.ret.results[TopN + 1].image_path = None

-----------------------------------------------------------------------------
(* Properties of the Fetchers on their own (checked under SpecFetch) *)

\* the number of reactions a remote message carries
ReactionsCarried(m) == SumCounts(m.emoticons) + m.custom

CarriesReaction(m) == ReactionsCarried(m) > 0

\* C15: the Fetcher returns one record for each scanned message that carries
\* at least one reaction, in scan order, and none for any other message;
\* every returned record has total_reactions > 0, also when its
\* reaction_details is empty; total_checked is the number of messages scanned.
C15_Original ==
    call.done =>
        LET carriers == SelectSeq(call.channel, CarriesReaction)
        IN /\ call.ret.total_checked = Len(call.channel)
           /\ Len(call.ret.messages) = Len(carriers)
           /\ \A k \in 1..Len(call.ret.messages) :
                 /\ k <= Len(carriers) => call.ret.messages[k].id = carriers[k].id
                 /\ call.ret.messages[k].total_reactions > 0

-----------------------------------------------------------------------------
(* Properties of the target selector and of cache clearing (checked under Spec) *)

\* the step is a change of the target emoji set in the web UI: another
\* selection, or the restore-default button
TargetStep ==
    /\ ui.pc = "idle" /\ ui'.pc = "idle"
    /\ \/ target_emojis' # target_emojis
       \/ results'.some /\ results' # results

\* C16: a change of the target emoji set touches nothing but the `reactions`
\* field of the session's records: no stage of an analysis runs, no cache
\* file and no image changes, the session holds the same records in the same
\* order, and each record is what it was except that `reactions` is the sum
\* of its reaction_details over the new target list (unchanged for a record
\* without reaction_details).
C16_TargetChangeOnlyReaggregates ==
    [][TargetStep =>
          /\ ui'.trace = <<>> /\ ui'.fetch = "none"
          /\ remote' = remote /\ bot' = bot
          /\ rawFile' = rawFile /\ resultFile' = resultFile /\ images' = images
          /\ results'.some = results.some
          /\ Len(results'.msgs) = Len(results.msgs)
          /\ \A i \in 1..Len(results.msgs) :
                /\ [results'.msgs[i] EXCEPT !.reactions = results.msgs[i].reactions]
                      = results.msgs[i]
                /\ results'.msgs[i].reactions =
                      IF results.msgs[i].has_details
                      THEN TargetTotal(results.msgs[i].reaction_details, target_emojis')
                      ELSE results.msgs[i].reactions]_vars

\* the session's list was sorted under another target set and has been
\* re-aggregated since: under the selected set both records count 2, and the
\* older one still stands first
C16_Witness ==
    /\ ui = UiIdle
    /\ target_emojis = <<"fire", "thumb">>
    /\ results.some
    /\ Len(results.msgs) = 2
    /\ results.msgs[1].id = 1 /\ results.msgs[1].reactions = 2
    /\ results.msgs[2].id = 2 /\ results.msgs[2].reactions = 2

\* the step is a click on one of the two cache clearing buttons
ClearStep(kind) ==
    /\ ui.pc = "idle" /\ ui'.pc = "idle" /\ ui'.trace = <<>>
    /\ ui'.cleared = kind
    /\ bot' = bot /\ target_emojis' = target_emojis
    /\ ~results'.some
    /\ results' # results \/ ui' # ui \/ Disk' # Disk

\* what the two buttons do to the channel's files
ClearEffects ==
    /\ ClearStep("result") =>
          resultFile' = Missing /\ images' = {} /\ rawFile' = rawFile
    /\ ClearStep("all") =>
          resultFile' = Missing /\ images' = {} /\ rawFile' = Missing

\* the step ends the first analysis request after a cache clearing of the
\* given kind (requests that an uncaught exception ends are left out: C6 is
\* about them)
FirstRequestAfter(kind) ==
    UiCompletes /\ ui'.cleared = kind /\ ui'.outcome # "crashed"

-----------------------------------------------------------------------------
(* Properties of the presenters (checked under SpecReport) *)

\* the presenters that hand a ranked list to a reader
ListPresenters ==
    {"generate_report", "format_top_messages", "send_results", "send_report_to_saved"}

\* one of them has run
HasPresented == call.fn \in ListPresenters /\ call.done

\* the ids of the photo records of a list
PhotoIds(messages) == {messages[i].id : i \in {j \in 1..Len(messages) : messages[j].has_photo}}

\* C18 as stated: a presenter leaves every record and the order of the list it
\* was given as they were, and has no effect besides its text or its outbound
\* messages, so the image directory is as before.
C18_Original ==
    HasPresented =>
        /\ call.ret.messages = call.messages
        /\ call.ret.on_disk = call.on_disk

\* C18, amended: a presenter leaves every record and the order of the list it
\* was given as they were, and has no effect besides its text or its outbound
\* messages, except that send_results saves into the image directory the
\* images it retrieves for photo records that have none there.
C18_PresentersLeaveInputs ==
    HasPresented =>
        /\ call.ret.messages = call.messages
        /\ IF call.fn = "send_results"
           THEN /\ call.on_disk \subseteq call.ret.on_disk
                /\ call.ret.on_disk \ call.on_disk
                       \subseteq PhotoIds(call.messages) \cap call.available
           ELSE call.ret.on_disk = call.on_disk

\* send_results has gone through a list longer than the cut that was not in
\* rank order, and saved an image on its way
C18_Witness ==
    /\ HasPresented
    /\ call.fn = "send_results"
    /\ Len(call.messages) > TopN
    /\ call.messages # sorted_by_reactions(call.messages)
    /\ call.ret.on_disk # call.on_disk
    /\ call.ret.out # <<>>

\* the lines of a text that are the rank marker for k
RankLines(out, k) == {i \in 1..Len(out) : out[i].kind = "rank" /\ out[i].idx = k}

\* the lines of the entry that starts at line i: those up to the next rank
\* marker or the summary
EntryLines(out, i) ==
    {j \in (i + 1)..Len(out) :
        \A h \in (i + 1)..j : out[h].kind \notin {"rank", "summary"}}

\* C19: the text of generate_report has the channel title and, for the
\* record at each position k, the rank marker for k with that record's text
\* and target-reaction count in its entry, the entries in list order.
C19_ReportShowsEveryRecord ==
    (call.fn = "generate_report" /\ call.done) =>
        LET out == call.ret.out
            messages == call.messages
        IN /\ \E i \in 1..Len(out) :
                  out[i].kind = "title" /\ out[i].title = call.channel_title
           /\ \A k \in 1..Len(messages) :
                  /\ Cardinality(RankLines(out, k)) = 1
                  /\ \A i \in RankLines(out, k) :
                        /\ \E j \in EntryLines(out, i) :
                              out[j].kind = "text" /\ out[j].text = messages[k].text
                        /\ \E j \in EntryLines(out, i) :
                              out[j].kind = "reactions" /\ out[j].target = messages[k].reactions
                        /\ k > 1 => \A h \in RankLines(out, k - 1) : h < i

\* generate_report has run on a list longer than the cut whose first two
\* records differ in text and target count and are not in rank order
C19_Witness ==
    /\ call.fn = "generate_report"
    /\ call.done
    /\ Len(call.messages) > TopN
    /\ call.messages[1].text # call.messages[2].text
    /\ call.messages[1].reactions < call.messages[2].reactions
    /\ Len(call.ret.out) > 7 * TopN

\* what the summary of a text or of a sequence of outbound messages reports:
\* the counts, the sums of target reactions, the sums of total reactions
Counts(out) ==
    {out[i].count : i \in {j \in 1..Len(out) : out[j].kind \in {"count", "header"}}}

TargetSums(out) ==
    {out[i].sum : i \in {j \in 1..Len(out) : out[j].kind = "target_sum"}}
    \cup {out[i].target_sum : i \in {j \in 1..Len(out) : out[j].kind = "header"}}

TotalSums(out) ==
    {out[i].sum : i \in {j \in 1..Len(out) : out[j].kind = "total_sum"}}
    \cup {out[i].total_sum : i \in {j \in 1..Len(out) : out[j].kind = "header"}}

\* C20 as stated: where a presenter gives a summary, it reports the number of
\* messages of the list, the sum of their target reactions and the sum of
\* their total reactions, and no share when the sum of total reactions is 0.
C20_Original ==
    (call.fn \in Presenters /\ call.done /\ Counts(call.ret.out) # {}) =>
        LET out == call.ret.out
            messages == call.messages
        IN /\ Counts(out) = {Len(messages)}
           /\ TargetSums(out) = {SumReactions(messages)}
           /\ TotalSums(out) = {SumTotals(messages)}
           /\ SumTotals(messages) = 0 =>
                  \A i \in 1..Len(out) : out[i].kind # "share"

-----------------------------------------------------------------------------
(* Properties of load_config (checked under SpecConfig) *)

\* the value of a key as load_config hands it on: api_id as a number, the
\* proxy as a triple
AsReturned(key, v) ==
    CASE key = "api_id" /\ IsNumeral(v) -> ToInt(v)
      [] key = "proxy" -> ProxyTuple(v)
      [] OTHER -> v

\* C21 as stated: for every configuration item load_config returns the
\* value of the environment variable when it is set, otherwise the value of
\* the config file when present, otherwise the built-in default.
C21_Original ==
    (call.fn = "load_config" /\ call.done) =>
        /\ ~call.ret.raised
        /\ \A k \in ExpectedKeys :
              /\ k \in call.ret.keys
              /\ call.ret.value[k] =
                    AsReturned(k, IF call.env[k] # Unset THEN call.env[k]
                                  ELSE IF call.file[k] # Absent THEN call.file[k]
                                  ELSE DefaultOf(k))

-----------------------------------------------------------------------------
(* Properties of the rankings (checked under Spec) *)

\* the active score of a record
Score(msg, by_hotness) == IF by_hotness THEN calc_hotness(msg) ELSE msg.reactions

\* the place of a message in the order the Fetcher meets the messages
FetchPosition(id) == CHOOSE i \in 1..Len(remote) : remote[i].id = id

\* by descending score, records of equal score in fetch order
InRankOrder(ranking, by_hotness) ==
    \A i, j \in 1..Len(ranking) :
        i < j =>
            \/ Score(ranking[i], by_hotness) > Score(ranking[j], by_hotness)
            \/ /\ Score(ranking[i], by_hotness) = Score(ranking[j], by_hotness)
               /\ FetchPosition(ranking[i].id) < FetchPosition(ranking[j].id)

\* C22 as stated: every ranking, the one the web UI shows in either sort mode
\* and the one the bot sends, is by descending active score with records of
\* equal score in their original fetch order, whatever tier served the
\* records and whatever target sets were selected before.
C22_Original ==
    /\ results.some =>
          \A by_hotness \in BOOLEAN :
              InRankOrder(sorted_results(results.msgs, by_hotness), by_hotness)
    /\ bot.pc = "entries" => InRankOrder(bot.sorted_msgs, bot.sort_by_hotness)

-----------------------------------------------------------------------------
(* Properties of the progress reports (checked under SpecProgress) *)

\* a fetch with a callback has run
Reported == call.fn = "on_progress" /\ call.done

\* the number of 10% boundaries the scanned fraction has passed after c messages
Boundaries(c) == ((c * 100) \div call.estimated_total) \div 10

\* the messages with which the scanned fraction passes a further boundary
Crossings == {c \in 1..call.scanned : Boundaries(c) > Boundaries(c - 1)}

StrictlyIncreasing(s) == \A i, j \in 1..Len(s) : i < j => s[i] < s[j]

C29_Original ==
    Reported =>
        /\ StrictlyIncreasing(call.reports)
        /\ \A i \in 1..Len(call.reports) :
              call.reports[i] % 10 = 0 /\ call.reports[i] <= 100

-----------------------------------------------------------------------------
(* Properties of the pacing (checked under SpecReport) *)

\* a chat presenter has sent a list out
HasSent == call.fn \in {"send_results", "send_report_to_saved"} /\ call.done

\* the places of the outbound sends of the given kinds in what went out
Sends(out, kinds) == {i \in 1..Len(out) : out[i].kind \in kinds}

\* between every two sends of these kinds, and so between every two
\* successive ones, there is a pause of 1 second
PausedBetween(out, kinds) ==
    \A i, j \in Sends(out, kinds) :
        i < j => \E h \in (i + 1)..(j - 1) : out[h] = Sleep

\* C24 as stated: a pause of 1 second separates every two successive outbound
\* sends of the batch, the header and the entries alike, media or text.
C24_Original ==
    HasSent => PausedBetween(call.ret.out, {"header", "file", "message"})

\* C24, amended: a pause of 1 second separates the sends of every two
\* successive entries of the batch, media or text; the first entry follows
\* the header without a pause.
C24_EntriesPaced ==
    HasSent =>
        /\ PausedBetween(call.ret.out, {"file", "message"})
        /\ \A i \in Sends(call.ret.out, {"header"}) :
              i < Len(call.ret.out) => call.ret.out[i + 1].kind \in {"file", "message"}

\* a batch went out with a text entry followed by a media entry
C24_Witness ==
    /\ HasSent
    /\ \E i, j \in 1..Len(call.ret.out) :
          /\ i < j
          /\ call.ret.out[i].kind = "message"
          /\ call.ret.out[j].kind = "file"

-----------------------------------------------------------------------------
(* The bot's sessions when handlers interleave (checked under SpecBot) *)

\* the analysis was started for a session that an earlier identification of
\* the same sender stored
StartedFromSession(a) ==
    \E s \in loop.stored : s.n = a.session /\ s.user = a.user /\ s.n < a.n

\* no session started two analyses
OncePerSession ==
    \A i, j \in 1..Len(loop.analyses) :
        i # j => loop.analyses[i].session # loop.analyses[j].session

\* send_results was asked for the hotness order exactly when the text was "1"
OrderAsAsked ==
    \A s \in loop.sent :
        \E i \in 1..Len(loop.analyses) :
            /\ loop.analyses[i].n = s.n
            /\ s.sort_by_hotness = (loop.analyses[i].text = "1")

\* the session that is pending is not older than a session of the same
\* sender that was stored
LatestIdentificationPending ==
    \A u \in Users :
        loop.pending_sessions[u] # NoSession =>
            \A s \in loop.stored : s.user = u => s.n <= loop.pending_sessions[u]

\* C25: in the bot, "1" or "2" starts an analysis only for a sender with a
\* pending session that an earlier identification created; the session is
\* removed before any suspension point, so one session starts exactly one
\* analysis even when handlers interleave; "1" selects the hotness order and
\* "2" the reaction-count order; a later identification by the same sender
\* replaces the pending session.
C25_Original ==
    /\ \A i \in 1..Len(loop.analyses) : StartedFromSession(loop.analyses[i])
    /\ OncePerSession
    /\ OrderAsAsked
    /\ LatestIdentificationPending

\* the lists a fetch of the channel can return: all the records of the
\* channel as it was at the time
CompleteLists ==
    {fetch_channel_messages(c, cfg_target_emojis).messages :
        c \in {ChannelQuiet, ChannelBusy, ChannelGrown}}

\* C26: when requests for the channel interleave on the event loop and
\* fetch, every write replaces the whole file: the raw cache holds the
\* complete list of the request that wrote last and no mixture.
C26_LastWriteWins ==
    loop.written # <<>> =>
        /\ rawFile.kind = "ok"
        /\ rawFile.messages = loop.written[Len(loop.written)]
        /\ rawFile.messages \in CompleteLists

\* two requests fetched, the one that fetched first wrote last, and both are
\* over: the raw cache holds the older list
C26_Witness ==
    /\ Len(loop.written) = 2
    /\ loop.written[1] = fetch_channel_messages(ChannelGrown, cfg_target_emojis).messages
    /\ loop.written[2] = fetch_channel_messages(ChannelBusy, cfg_target_emojis).messages
    /\ rawFile.messages = loop.written[2]
    /\ FreeHandlers = 1..MaxHandlers
    /\ Cardinality(loop.sent) = 2

-----------------------------------------------------------------------------
(* The raw cache of a channel without reactions (checked under Spec) *)

\* the raw cache is readable and its list is empty
EmptyRawCache == rawFile.kind = "ok" /\ rawFile.messages = <<>>

\* the step is the one after which the Fetcher runs, in the web UI and in the bot
UiTurnsToFetcher == ui.pc = "load_raw" /\ ui'.pc = "fetch"
BotTurnsToFetcher == bot.pc = "idle" /\ bot'.pc = "fetching"

\* the step is the one that follows a fetch that found no record
AfterEmptyFetch ==
    \/ ui.pc = "save_raw" /\ ui.raw_messages = <<>> /\ ui'.pc # "save_raw"
    \/ bot.pc = "fetched" /\ bot.messages = <<>> /\ bot'.pc # "fetched"

\* C28: a readable raw cache with an empty list is a hit: a request without
\* force-refresh does not go to the Fetcher, in the web UI and in the bot
\* alike, and a fetch that finds no message with reactions leaves a raw cache.
C28_Original ==
    [][/\ (EmptyRawCache /\ ~ui.force) => ~UiTurnsToFetcher
       /\ EmptyRawCache => ~BotTurnsToFetcher
       /\ AfterEmptyFetch => rawFile'.kind = "ok"]_vars

-----------------------------------------------------------------------------
(* The two caches of one channel (checked under Spec) *)

\* the message ids of a record list
Ids(messages) == {messages[i].id : i \in 1..Len(messages)}

\* C27: after any sequence of requests, cache clears and failed stages in the
\* bot and the web UI, whenever both caches are readable the result cache
\* holds records for exactly the message ids of the raw cache.
C27_Original ==
    (resultFile.kind = "ok" /\ rawFile.kind = "ok") =>
        Ids(resultFile.messages) = Ids(rawFile.messages)

\* C27, as the code has it: the result cache a web UI request writes holds
\* records for exactly the message ids of the raw list that request loaded
\* from the raw cache or fetched.
C27_ResultFromRequestsRawList ==
    [][(ui.pc = "save_result" /\ ui'.pc # "save_result") =>
           /\ resultFile'.kind = "ok"
           /\ Ids(resultFile'.messages) = Ids(ui.raw_messages)]_vars

\* a request that fetched both messages with reactions wrote the result
\* cache, and the raw cache holds the same ids
C27_Witness ==
    /\ ui.pc = "idle" /\ ui.outcome = "done" /\ "fetch" \in ui.used
    /\ resultFile.kind = "ok" /\ rawFile.kind = "ok"
    /\ Ids(resultFile.messages) = {1, 2}
    /\ Ids(rawFile.messages) = {1, 2}

-----------------------------------------------------------------------------
(* The connections the remote operations leave (checked under SpecConnection) *)

\* C30: every remote operation that opens a client connection (connection
\* check, channel listing, message fetch, media resolution, send-to-saved,
\* CLI login) has closed it when it returns or raises, on the success path and
\* on every error path.  The CLI login is taken with the main() that uses the
\* client it returns.
C30_Original ==
    (call.fn \in RemoteOperations \ {"create_client"} /\ call.done /\ call.ended.opened)
        => ~call.ended.connected

=============================================================================
